---- MODULE Spec2Model ----
(***************************************************************************)
(* The process supervisor of the terminal dashboard (internal/cli):        *)
(* startServer, stopServer, restartServer and checkServerStatus run as     *)
(* concurrent commands, each a goroutine whose return value is delivered   *)
(* to DashboardModel.Update as a ServerStatusMsg.  The commands share the  *)
(* package variable currentServer, the logger and the operating system     *)
(* (the port, the child processes).                                        *)
(*                                                                         *)
(* A command is modelled as a task with a program counter; one step of a   *)
(* task is one access to currentServer or to the operating system,         *)
(* together with the local code and the log calls around it.               *)
(***************************************************************************)
EXTENDS Integers, Sequences, FiniteSets, TLC

VARIABLES
    m,              \* DashboardModel: server.Status, server.PID, lastError,
                    \* showError, width, height, selectedTab, requests, logs,
                    \* startTime, server.Uptime
    pending,        \* the runtime: timers set by tick(), log loaders in flight
    sawStopped,     \* per restart that has not begun its Start: has Update
                    \* stored status Stopped since the restart was dispatched
    prog,           \* "running", "quit" (tea.Quit) or "crashed" (a panic)
    ncmds,          \* start/stop/restart commands dispatched so far
    tasks,          \* the start/stop/restart commands, by order of dispatch
    checks,         \* the checkServerStatus commands in flight
    currentServer,  \* the package variable: None or a ServerProcess
    cancelled,      \* the contexts whose cancel() was called
    procs,          \* the child processes: "none", "alive", "zombie", "reaped"
    portOwner,      \* the pid listening on server.Port, 0 when none
    waiters,        \* per child, the detached goroutines blocked in cmd.Wait()
    relays,         \* the running StreamReader goroutines
    logged,         \* the entries handed to Logger.Log so far
    killed,         \* the children killed by os/exec because their context
                    \* was cancelled
    entries,        \* Logger.entries, the in-memory buffer
    mu,             \* Logger.mu: 0, or the caller holding the write lock
    logFile,        \* the lines appended to the log file
    writers,        \* the writeToFile goroutines that have not run yet
    clock,          \* time.Now(), as the number of entries built so far
    calls,          \* the callers of Logger.Log: position, entry, calls left
    stream,         \* what is left of the stream the StreamReader reads
    lastRead,       \* the last call of GetRecentLogs or GetLogsBySource
    history,        \* every entry appended to the buffer, in the order of
                    \* the appends (kept for the properties only)
    requestsFile,   \* .local-first/requests.jsonl: present, readable, bytes
    loaded,         \* whether loadRequestLogs has returned, and the Logs of
                    \* its RequestLogsMsg
    now             \* time.Now(); 0 is the zero time.Time

logVars == <<entries, mu, logFile, writers, clock, calls, stream, lastRead, history>>
reqVars == <<requestsFile, loaded>>

vars == <<m, pending, sawStopped, prog, ncmds, tasks, checks, currentServer, cancelled, procs,
          portOwner, waiters, relays, logged, killed, logVars, reqVars, now>>

dashVars == <<m, pending, sawStopped, prog, ncmds, tasks, checks, currentServer, cancelled,
              procs, portOwner, waiters, relays, logged>>

ctlVars == <<m, prog, ncmds>>
osVars  == <<procs, portOwner>>

----------------------------------------------------------------------------
\* Bounds of the model.
MaxCmds == 2
MaxChecks == 1
MaxLoads == 1

\* tabs: []string{"Server", "Requests", "Logs"}.
NumTabs == 3

\* The sizes the terminal reports and the lists the log loaders return.
WindowSizes == {<<80, 24>>}
LogLists == {<<>>, <<"entry">>}

\* ServerStatus (iota).
ServerStopped == 0
ServerStarting == 1
ServerRunning == 2
ServerStopping == 3

\* LogLevel (iota).
LogInfo == 0
LogWarning == 1
LogError == 2
LogDebug == 3
LogSystem == 4

None == [pid |-> 0, ctx |-> 0]

\* The k-th command's child gets pid k and its context is context k.
ChildPids == 1..(MaxCmds + 1)
\* A process not started by the dashboard that may listen on the port.
ExtPids == {101}
Pids == ChildPids \cup ExtPids

NoError == ""
ZeroTime == 0
ErrBuildWasm == "failed to build WASM"
ErrBuildServer == "failed to build server"
ErrStdoutPipe == "failed to create stdout pipe"
ErrStderrPipe == "failed to create stderr pipe"
ErrStart == "failed to start server"

ServerStatusMsg(status, pid, err) == [Status |-> status, PID |-> pid, Error |-> err]

NoMsg == ServerStatusMsg(ServerStopped, 0, NoError)

----------------------------------------------------------------------------
\* Logger.Log: the entry built from (level, source, message) is appended.
\* Fewer than 500 entries are logged within the bounds of this model, so
\* the buffer is never trimmed here; logged holds its entries, without
\* their order.
Log(lg, level, source, message) ==
    lg \cup {[Level |-> level, Source |-> source, Message |-> message]}

\* A variant of isPortInUse that does not look at the port.
IsPortInUse_IgnoresPort(ok) == ok

\* A variant of isPortInUse that also answers yes while an instance is held.
IsPortInUse_OrHeld(ok) == ok /\ (portOwner # 0 \/ currentServer # None)

\* A variant of isPortInUse that takes a failed lsof for an occupied port.
IsPortInUse_FailsClosed(ok) == ~ok \/ portOwner # 0

\* isPortInUse: lsof -i :port exits with status 0 (ok: lsof could be run).
IsPortInUse(ok) == ok /\ portOwner # 0

\* getProcessByPort: the pid printed by lsof -ti :port, 0 on any error.
GetProcessByPort(ok) == IF ok THEN portOwner ELSE 0

\* syscall.Getpgid(pid) succeeds while the process is in the process table.
GetpgidOk(pid) == pid \in ChildPids /\ procs[pid] \in {"alive", "zombie"}

\* syscall.Kill(pid, sig) returns nil while the process exists.
KillOk(pid) ==
    \/ pid \in ChildPids /\ procs[pid] \in {"alive", "zombie"}
    \/ pid \in ExtPids /\ portOwner = pid

Signal(to, sig, ok) == [to |-> to, sig |-> sig, ok |-> ok]

----------------------------------------------------------------------------
\* A command: kind, program counter, the locals of stopServer (pid, pgid,
\* ctx: the pid of cmd or of the port's owner, the process group, the
\* cancel function), the child started by startServer, the message the
\* command returns (res), and what it has done so far (trace: its steps,
\* sigs: the signals it sent, failed: the step of startServer that failed).
NewTask(kind, pc) ==
    [kind |-> kind, pc |-> pc, pid |-> 0, pgid |-> 0, ctx |-> 0, child |-> 0,
     res |-> NoMsg, trace |-> <<>>, sigs |-> <<>>, failed |-> ""]

Idle == NewTask("none", "idle")
Gone == NewTask("none", "gone")

\* A status check: program counter, the message it returns, and whether
\* its lsof call could not be run.
NewCheck(pc) == [pc |-> pc, res |-> NoMsg, failed |-> FALSE]

Tasks == 1..(MaxCmds + 1)
Checks == 1..MaxChecks

Running(t) == prog = "running" /\ tasks[t].kind # "none"

\* A command returns msg.
Return(tk, msg) == [tk EXCEPT !.res = msg, !.pc = "done"]

----------------------------------------------------------------------------
\* startServer

\* lines 51-62: the port test; an occupied port is reported as Running
\* with its owner, a free port goes on to the builds.
StartCheckIn(t, oks) ==
    /\ Running(t) /\ tasks[t].pc = "s_check"
    /\ \E ok1, ok2 \in oks :
          tasks' = [tasks EXCEPT ![t] =
             IF IsPortInUse(ok1)
             THEN Return([@ EXCEPT !.trace = Append(@, "inuse")],
                         ServerStatusMsg(ServerRunning, GetProcessByPort(ok2), NoError))
             ELSE [@ EXCEPT !.pc = "s_build"]]
    /\ UNCHANGED <<reqVars, now, logVars, killed, sawStopped, pending, ctlVars, osVars, checks, currentServer, cancelled,
                   waiters, relays, logged>>

\* A variant of StartSteps that builds the server before the WASM module.
StartSteps_ServerFirst ==
    << [step |-> "make server", before |-> "Building server...",
        after |-> "Server build completed",
        fail |-> "Failed to build server", err |-> ErrBuildServer],
       [step |-> "make wasm", before |-> "Building WASM...",
        after |-> "WASM build completed",
        fail |-> "Failed to build WASM", err |-> ErrBuildWasm],
       [step |-> "stdout pipe", before |-> "Starting server on port",
        after |-> "",
        fail |-> "Failed to create stdout pipe", err |-> ErrStdoutPipe],
       [step |-> "stderr pipe", before |-> "", after |-> "",
        fail |-> "Failed to create stderr pipe", err |-> ErrStderrPipe],
       [step |-> "start", before |-> "",
        after |-> "Server started with PID",
        fail |-> "Failed to start server", err |-> ErrStart] >>

\* A variant of StartSteps whose two pipe failures return the same error.
StartSteps_SamePipeError ==
    << [step |-> "make wasm", before |-> "Building WASM...",
        after |-> "WASM build completed",
        fail |-> "Failed to build WASM", err |-> ErrBuildWasm],
       [step |-> "make server", before |-> "Building server...",
        after |-> "Server build completed",
        fail |-> "Failed to build server", err |-> ErrBuildServer],
       [step |-> "stdout pipe", before |-> "Starting server on port",
        after |-> "",
        fail |-> "Failed to create stdout pipe", err |-> ErrStdoutPipe],
       [step |-> "stderr pipe", before |-> "", after |-> "",
        fail |-> "Failed to create stderr pipe", err |-> ErrStdoutPipe],
       [step |-> "start", before |-> "",
        after |-> "Server started with PID",
        fail |-> "Failed to start server", err |-> ErrStart] >>

\* The steps of lines 66-132 in their order: each is announced in the log,
\* run, and on failure logged as an error and returned as an error.
StartSteps ==
    << [step |-> "make wasm", before |-> "Building WASM...",
        after |-> "WASM build completed",
        fail |-> "Failed to build WASM", err |-> ErrBuildWasm],
       [step |-> "make server", before |-> "Building server...",
        after |-> "Server build completed",
        fail |-> "Failed to build server", err |-> ErrBuildServer],
       [step |-> "stdout pipe", before |-> "Starting server on port",
        after |-> "",
        fail |-> "Failed to create stdout pipe", err |-> ErrStdoutPipe],
       [step |-> "stderr pipe", before |-> "", after |-> "",
        fail |-> "Failed to create stderr pipe", err |-> ErrStderrPipe],
       [step |-> "start", before |-> "",
        after |-> "Server started with PID",
        fail |-> "Failed to start server", err |-> ErrStart] >>

\* A variant of LogFailure that logs the failure with severity System.
LogFailure_AsSystem(lg, message) == Log(lg, LogSystem, "cli", message)

\* lines 71, 84, 108, 118, 127: logger.Log(LogError, "cli", "Failed to ...").
LogFailure(lg, message) == Log(lg, LogError, "cli", message)

LogIf(lg, level, message) ==
    IF message = "" THEN lg ELSE Log(lg, level, "cli", message)

\* The log after the first n steps succeeded.
RECURSIVE LogAfter(_, _)
LogAfter(lg, n) ==
    IF n = 0 THEN lg
    ELSE LogIf(LogIf(LogAfter(lg, n - 1), LogSystem, StartSteps[n].before),
               LogSystem, StartSteps[n].after)

\* The steps run when the first n succeed.
StepsRun(n) == [i \in 1..n |-> StartSteps[i].step]

StartCheck(t) == StartCheckIn(t, BOOLEAN)

\* A variant of cancel() that does not cancel.
Cancel_Lost(cs, ctx) == cs

\* lines 70, 83, 107, 117, 126: cancel() of the context made in line 62.
Cancel(cs, ctx) == cs \cup {ctx}

\* lines 66-138: make wasm, make server, the two pipes, cmd.Start() in a
\* new process group, the two relays.  nfail is the step that fails (0:
\* none); a failing step cancels the context, logs and returns the error.
StartBuildIn(t, fails) ==
    /\ Running(t) /\ tasks[t].pc = "s_build"
    /\ \E nfail \in fails :
          IF nfail = 0
          THEN /\ procs' = [procs EXCEPT ![t] = "alive"]
               /\ relays' = relays \cup {[pid |-> t, level |-> LogInfo],
                                         [pid |-> t, level |-> LogError]}
               /\ logged' = LogAfter(logged, Len(StartSteps))
               /\ tasks' = [tasks EXCEPT ![t].child = t,
                                         ![t].pc = "s_record",
                                         ![t].trace = @ \o StepsRun(Len(StartSteps))]
               /\ UNCHANGED cancelled
          ELSE /\ cancelled' = Cancel(cancelled, t)
               /\ logged' = LogFailure(LogIf(LogAfter(logged, nfail - 1), LogSystem,
                                             StartSteps[nfail].before),
                                       StartSteps[nfail].fail)
               /\ tasks' = [tasks EXCEPT ![t] =
                     Return([@ EXCEPT !.failed = StartSteps[nfail].step,
                                      !.trace = @ \o StepsRun(nfail)],
                            ServerStatusMsg(ServerStopped, 0, StartSteps[nfail].err))]
               /\ UNCHANGED <<procs, relays>>
    /\ UNCHANGED <<reqVars, now, logVars, killed, sawStopped, pending, ctlVars, portOwner, checks, currentServer, waiters>>

StartBuild(t) == StartBuildIn(t, 0..Len(StartSteps))

\* lines 140-153: currentServer = &ServerProcess{cmd, cancel}, the settle
\* delay, then Running with the child's pid.
StartRecord(t) ==
    /\ Running(t) /\ tasks[t].pc = "s_record"
    /\ currentServer' = [pid |-> tasks[t].child, ctx |-> t]
    /\ logged' = Log(logged, LogSystem, "cli", "Server startup completed")
    /\ tasks' = [tasks EXCEPT ![t] =
          Return([@ EXCEPT !.trace = Append(@, "record")],
                 ServerStatusMsg(ServerRunning, tasks[t].child, NoError))]
    /\ UNCHANGED <<reqVars, now, logVars, killed, sawStopped, pending, ctlVars, osVars, checks, cancelled, waiters, relays>>

----------------------------------------------------------------------------
\* stopServer

\* A variant of StopReturn in which restartServer returns what its stop
\* returned.
StopReturn_ToRuntime(tk, msg) == Return([tk EXCEPT !.trace = Append(@, "stopped")], msg)

\* A stop returns msg: to the runtime, or into restartServer, which drops it.
StopReturn(tk, msg) ==
    IF tk.kind = "restart"
    THEN [tk EXCEPT !.pc = "r_cool", !.trace = Append(@, "stopped")]
    ELSE Return([tk EXCEPT !.trace = Append(@, "stopped")], msg)

\* A variant in which a stop reports the transitional status.
Stopped_AsStopping == ServerStatusMsg(ServerStopping, 0, NoError)

\* A variant in which a stop reports the process it stopped.
Stopped_WithPid == ServerStatusMsg(ServerStopped, 1, NoError)

\* lines 208-211: what every stop returns.
Stopped == ServerStatusMsg(ServerStopped, 0, NoError)

\* line 161: the test of currentServer and the first log line of its branch.
StopTest(t) ==
    /\ Running(t) /\ tasks[t].pc = "x_test"
    /\ IF currentServer # None
       THEN /\ logged' = Log(logged, LogSystem, "cli", "Stopping server...")
            /\ tasks' = [tasks EXCEPT ![t].pc = "x_readcmd",
                                      ![t].trace = Append(@, "held")]
       ELSE /\ logged' = Log(logged, LogSystem, "cli",
                             "No active server process, checking port...")
            /\ tasks' = [tasks EXCEPT ![t].pc = "x_lookup",
                                      ![t].trace = Append(@, "fallback")]
    /\ UNCHANGED <<reqVars, now, logVars, killed, sawStopped, pending, ctlVars, osVars, checks, currentServer, cancelled, waiters, relays>>

\* line 165: cmd := currentServer.cmd, a nil dereference if it was cleared.
StopReadCmd(t) ==
    /\ Running(t) /\ tasks[t].pc = "x_readcmd"
    /\ IF currentServer = None
       THEN prog' = "crashed" /\ UNCHANGED tasks
       ELSE /\ tasks' = [tasks EXCEPT ![t].pid = currentServer.pid,
                                      ![t].pc = "x_cancel"]
            /\ UNCHANGED prog
    /\ UNCHANGED <<reqVars, now, logVars, killed, sawStopped, pending, m, ncmds, osVars, checks, currentServer, cancelled, waiters,
                   relays, logged>>

\* lines 166-176: cancel := currentServer.cancel (a nil dereference if it
\* was cleared), cancel(), and Getpgid of the child.
StopCancel(t) ==
    /\ Running(t) /\ tasks[t].pc = "x_cancel"
    /\ IF currentServer = None
       THEN prog' = "crashed" /\ UNCHANGED <<tasks, cancelled, logged>>
       ELSE LET pid == tasks[t].pid IN
            /\ cancelled' = cancelled \cup {currentServer.ctx}
            /\ logged' = Log(logged, LogSystem, "cli", "Terminating server process")
            /\ tasks' = [tasks EXCEPT
                  ![t].ctx = currentServer.ctx,
                  ![t].pgid = IF GetpgidOk(pid) THEN pid ELSE 0,
                  ![t].pc = "x_kill"]
            /\ UNCHANGED prog
    /\ UNCHANGED <<reqVars, now, logVars, killed, sawStopped, pending, m, ncmds, osVars, checks, currentServer, waiters, relays>>

\* lines 177-186: SIGTERM to the process group if Getpgid succeeded (the
\* result of Kill is dropped), and the detached cmd.Wait().
StopKill(t) ==
    /\ Running(t) /\ tasks[t].pc = "x_kill"
    /\ LET pid == tasks[t].pid IN
       /\ tasks' = [tasks EXCEPT
             ![t].sigs = IF tasks[t].pgid # 0
                         THEN Append(@, Signal(-tasks[t].pgid, "SIGTERM", KillOk(pid)))
                         ELSE @,
             ![t].pc = "x_clear"]
       /\ waiters' = [waiters EXCEPT ![pid] = @ + 1]
    /\ UNCHANGED <<reqVars, now, logVars, killed, sawStopped, pending, ctlVars, osVars, checks, currentServer, cancelled, relays, logged>>

\* lines 188, 206-211: currentServer = nil, then Stopped with PID 0.
StopClear(t) ==
    /\ Running(t) /\ tasks[t].pc = "x_clear"
    /\ currentServer' = None
    /\ logged' = Log(logged, LogSystem, "cli", "Server stopped")
    /\ tasks' = [tasks EXCEPT ![t] = StopReturn(@, Stopped)]
    /\ UNCHANGED <<reqVars, now, logVars, killed, sawStopped, pending, ctlVars, osVars, checks, cancelled, waiters, relays>>

\* lines 190-196, 201-211: no handle, the owner of the port is looked up;
\* with no owner found Stopped is returned.
StopLookupIn(t, oks) ==
    /\ Running(t) /\ tasks[t].pc = "x_lookup"
    /\ \E ok \in oks :
       LET pid == GetProcessByPort(ok) IN
       IF pid > 0
       THEN /\ logged' = Log(logged, LogSystem, "cli", "Found process on port, terminating")
            /\ tasks' = [tasks EXCEPT ![t].pid = pid, ![t].pc = "x_term"]
       ELSE /\ logged' = Log(Log(logged, LogSystem, "cli", "No process found on port"),
                             LogSystem, "cli", "Server stopped")
            /\ tasks' = [tasks EXCEPT ![t] = StopReturn([@ EXCEPT !.pid = pid], Stopped)]
    /\ UNCHANGED <<reqVars, now, logVars, killed, sawStopped, pending, ctlVars, osVars, checks, currentServer, cancelled, waiters, relays>>

StopLookup(t) == StopLookupIn(t, BOOLEAN)

\* A variant of TermSignals that never escalates.
TermSignals_NoKill(pid) == <<Signal(pid, "SIGTERM", KillOk(pid))>>

\* lines 197-200: the signals sent to the owner of the port: SIGTERM, and
\* SIGKILL if the SIGTERM failed.
TermSignals(pid) ==
    IF KillOk(pid)
    THEN <<Signal(pid, "SIGTERM", TRUE)>>
    ELSE <<Signal(pid, "SIGTERM", FALSE), Signal(pid, "SIGKILL", KillOk(pid))>>

\* lines 197-200, 206-211: SIGTERM to the owner, SIGKILL if that fails
\* (which is logged as a warning), then Stopped with PID 0.
StopTerm(t) ==
    /\ Running(t) /\ tasks[t].pc = "x_term"
    /\ tasks' = [tasks EXCEPT ![t] =
          StopReturn([@ EXCEPT !.sigs = @ \o TermSignals(tasks[t].pid)], Stopped)]
    /\ logged' = Log(IF KillOk(tasks[t].pid)
                     THEN logged
                     ELSE Log(logged, LogWarning, "cli", "SIGTERM failed, using SIGKILL"),
                     LogSystem, "cli", "Server stopped")
    /\ UNCHANGED <<reqVars, now, logVars, killed, sawStopped, pending, ctlVars, osVars, checks, currentServer, cancelled, waiters, relays>>

----------------------------------------------------------------------------
\* restartServer

\* lines 217-221: the log line, then stopServer is called.
RestartBegin(t) ==
    /\ Running(t) /\ tasks[t].pc = "r_begin"
    /\ logged' = Log(logged, LogSystem, "cli", "Restarting server...")
    /\ tasks' = [tasks EXCEPT ![t].pc = "x_test"]
    /\ UNCHANGED <<reqVars, now, logVars, killed, sawStopped, pending, ctlVars, osVars, checks, currentServer, cancelled, waiters, relays>>

\* lines 224-229: the cooldown sleep, then startServer is called (what
\* the restart saw of the status before its Start is of no use after it).
RestartCool(t) ==
    /\ Running(t) /\ tasks[t].pc = "r_cool"
    /\ logged' = Log(Log(logged, LogSystem, "cli", "Waiting for cleanup..."),
                     LogSystem, "cli", "Starting server again...")
    /\ tasks' = [tasks EXCEPT ![t].pc = "s_check", ![t].trace = Append(@, "cooldown")]
    /\ sawStopped' = [sawStopped EXCEPT ![t] = FALSE]
    /\ UNCHANGED <<reqVars, now, logVars, killed, pending, ctlVars, osVars, checks, currentServer, cancelled, waiters, relays>>

----------------------------------------------------------------------------
\* checkServerStatus

\* A variant of checkServerStatus that reports the held instance.
CheckPortIn_FromHandle(c, oks) ==
    /\ prog = "running" /\ checks[c].pc = "c_check"
    /\ \E ok1, ok2 \in oks :
          checks' = [checks EXCEPT ![c] =
             [pc |-> "done", failed |-> ~ok1,
              res |-> IF currentServer # None
                      THEN ServerStatusMsg(ServerRunning, currentServer.pid, NoError)
                      ELSE IF IsPortInUse(ok1)
                      THEN ServerStatusMsg(ServerRunning, GetProcessByPort(ok2), NoError)
                      ELSE ServerStatusMsg(ServerStopped, 0, NoError)]]
    /\ UNCHANGED <<reqVars, now, logVars, killed, sawStopped, pending, ctlVars, osVars, tasks, currentServer, cancelled, waiters,
                   relays, logged>>

\* lines 30-45: Running with the owner if the port is in use, else Stopped.
CheckPortIn(c, oks) ==
    /\ prog = "running" /\ checks[c].pc = "c_check"
    /\ \E ok1, ok2 \in oks :
          checks' = [checks EXCEPT ![c] =
             [pc |-> "done", failed |-> ~ok1,
              res |-> IF IsPortInUse(ok1)
                      THEN ServerStatusMsg(ServerRunning, GetProcessByPort(ok2), NoError)
                      ELSE ServerStatusMsg(ServerStopped, 0, NoError)]]
    /\ UNCHANGED <<reqVars, now, logVars, killed, sawStopped, pending, ctlVars, osVars, tasks, currentServer, cancelled, waiters,
                   relays, logged>>

CheckPort(c) == CheckPortIn(c, BOOLEAN)

----------------------------------------------------------------------------
\* The detached goroutine of stopServer: cmd.Wait() returns once the child
\* has exited (reaping it), then the exit is logged.
WaitExit(p) ==
    /\ prog = "running" /\ waiters[p] > 0
    /\ procs[p] \in {"zombie", "reaped"}
    /\ procs' = [procs EXCEPT ![p] = "reaped"]
    /\ waiters' = [waiters EXCEPT ![p] = @ - 1]
    /\ logged' = Log(logged, LogSystem, "cli", "Server process has exited")
    /\ UNCHANGED <<reqVars, now, logVars, killed, sawStopped, pending, ctlVars, portOwner, tasks, checks, currentServer,
                   cancelled, relays>>

----------------------------------------------------------------------------
\* DashboardModel.Update

\* Lines 473-478: a Running result sets a zero start time to time.Now(),
\* a Stopped result zeroes it.
StartTimeAfter(status, startTime) ==
    IF status = ServerRunning /\ startTime = ZeroTime THEN now
    ELSE IF status = ServerStopped THEN ZeroTime
    ELSE startTime

\* A variant that sets the start time at every Running result.
StartTimeAfter_Always(status, startTime) ==
    IF status = ServerRunning THEN now
    ELSE IF status = ServerStopped THEN ZeroTime
    ELSE startTime

\* A variant of case ServerStatusMsg that keeps the PID of a Running server.
UpdateStatus_KeepsPid(msg) ==
    [m EXCEPT !.Status = msg.Status,
              !.PID = IF msg.Status = ServerRunning /\ @ # 0 THEN @ ELSE msg.PID,
              !.lastError = IF msg.Error # NoError THEN msg.Error ELSE @,
              !.showError = msg.Error # NoError,
              !.startTime = StartTimeAfter(msg.Status, @),
              !.Uptime = IF msg.Status = ServerStopped THEN 0 ELSE @]

\* case ServerStatusMsg (lines 464-479).
UpdateStatus(msg) ==
    [m EXCEPT !.Status = msg.Status,
              !.PID = msg.PID,
              !.lastError = IF msg.Error # NoError THEN msg.Error ELSE @,
              !.showError = msg.Error # NoError,
              !.startTime = StartTimeAfter(msg.Status, @),
              !.Uptime = IF msg.Status = ServerStopped THEN 0 ELSE @]

\* The restarts that have not finished their cooldown note a status
\* Stopped stored by Update.
BeforeStart(tk) ==
    tk.kind = "restart" /\ tk.pc \notin {"s_check", "s_build", "s_record", "done"}

Observe(status) ==
    [t \in Tasks |-> IF BeforeStart(tasks[t]) /\ status = ServerStopped
                     THEN TRUE
                     ELSE sawStopped[t]]

\* A command is returned by Update and run by the runtime as a goroutine.
Dispatch(kind, pc) ==
    /\ ncmds' = ncmds + 1
    /\ tasks' = [tasks EXCEPT ![ncmds + 1] = NewTask(kind, pc)]

FreeChecks == {c \in Checks : checks[c].pc = "idle"}

DispatchCheck ==
    /\ FreeChecks # {}
    /\ checks' = [checks EXCEPT ![CHOOSE c \in FreeChecks : \A d \in FreeChecks : c <= d]
                                   = NewCheck("c_check")]

\* key "s".
KeyStartUpTo(max) ==
    /\ prog = "running" /\ ncmds < max
    /\ IF m.Status = ServerStopped
       THEN Dispatch("start", "s_check")
       ELSE UNCHANGED <<ncmds, tasks>>
    /\ UNCHANGED <<reqVars, now, logVars, killed, sawStopped, pending, m, prog, osVars, checks, currentServer, cancelled, waiters,
                   relays, logged>>

KeyStart == KeyStartUpTo(MaxCmds)

\* A variant of key "x" that does not look at the status.
KeyStopUpTo_Unguarded(max) ==
    /\ prog = "running" /\ ncmds < max
    /\ Dispatch("stop", "x_test")
    /\ UNCHANGED <<reqVars, now, logVars, killed, sawStopped, pending, m, prog, osVars, checks, currentServer, cancelled,
                   waiters, relays, logged>>

\* key "x".
KeyStopUpTo(max) ==
    /\ prog = "running" /\ ncmds < max
    /\ IF m.Status = ServerRunning
       THEN Dispatch("stop", "x_test")
       ELSE UNCHANGED <<ncmds, tasks>>
    /\ UNCHANGED <<reqVars, now, logVars, killed, sawStopped, pending, m, prog, osVars, checks, currentServer, cancelled, waiters,
                   relays, logged>>

KeyStop == KeyStopUpTo(MaxCmds)

\* key "r".
KeyRestartUpTo(max) ==
    /\ prog = "running" /\ ncmds < max
    /\ IF m.Status = ServerRunning
       THEN Dispatch("restart", "r_begin")
       ELSE UNCHANGED <<ncmds, tasks>>
    /\ UNCHANGED <<reqVars, now, logVars, killed, sawStopped, pending, m, prog, osVars, checks, currentServer, cancelled, waiters,
                   relays, logged>>

KeyRestart == KeyRestartUpTo(MaxCmds)

\* key "c".
KeyClear ==
    /\ prog = "running"
    /\ m' = [m EXCEPT !.showError = FALSE, !.lastError = ""]
    /\ UNCHANGED <<reqVars, now, logVars, killed, sawStopped, pending, prog, ncmds, osVars, tasks, checks, currentServer, cancelled,
                   waiters, relays, logged>>

\* A variant of case tickMsg that sets no new timer.
TickIn_NoTimer(loaders) ==
    /\ prog = "running" /\ pending.ticks > 0
    /\ DispatchCheck
    /\ IF loaders
       THEN /\ pending.reqs < MaxLoads /\ pending.logs < MaxLoads
            /\ pending' = [pending EXCEPT !.ticks = @ - 1,
                                          !.reqs = @ + 1, !.logs = @ + 1]
       ELSE pending' = [pending EXCEPT !.ticks = @ - 1]
    /\ UNCHANGED <<reqVars, now, logVars, killed, sawStopped, ctlVars, osVars, tasks, currentServer, cancelled,
                   waiters, relays, logged>>

\* case tickMsg: the timer that fired is used up; a status check, the two
\* log loaders and the next timer are issued (updateUptime changes a copy
\* of m only).  With loaders = FALSE the two log loaders, which touch
\* nothing but m.requests and m.logs, are left out.
TickIn(loaders) ==
    /\ prog = "running" /\ pending.ticks > 0
    /\ DispatchCheck
    /\ IF loaders
       THEN /\ pending.reqs < MaxLoads /\ pending.logs < MaxLoads
            /\ pending' = [pending EXCEPT !.ticks = @ - 1 + 1,
                                          !.reqs = @ + 1, !.logs = @ + 1]
       ELSE pending' = [pending EXCEPT !.ticks = @ - 1 + 1]
    /\ UNCHANGED <<reqVars, now, logVars, killed, sawStopped, ctlVars, osVars, tasks, currentServer, cancelled,
                   waiters, relays, logged>>

Tick == TickIn(FALSE)

\* case tea.WindowSizeMsg.
WindowSize ==
    /\ prog = "running"
    /\ \E sz \in WindowSizes : m' = [m EXCEPT !.width = sz[1], !.height = sz[2]]
    /\ UNCHANGED <<reqVars, now, logVars, killed, sawStopped, pending, prog, ncmds, osVars, tasks, checks, currentServer,
                   cancelled, waiters, relays, logged>>

\* A variant of key "q" that gives up the handle.
KeyQuit_Clears ==
    /\ prog = "running"
    /\ prog' = "quit"
    /\ currentServer' = None
    /\ UNCHANGED <<reqVars, now, logVars, killed, sawStopped, pending, m, ncmds, osVars, tasks, checks,
                   cancelled, waiters, relays, logged>>

\* key "q": tea.Quit ends the program.
KeyQuit ==
    /\ prog = "running"
    /\ prog' = "quit"
    /\ UNCHANGED <<reqVars, now, logVars, killed, sawStopped, pending, m, ncmds, osVars, tasks, checks, currentServer,
                   cancelled, waiters, relays, logged>>

\* line 442: (m.selectedTab + 1) % len(m.tabs).
NextTab(i) == (i + 1) % NumTabs

\* A variant of PrevTab that stops at the first tab.
PrevTab_NoWrap(i) == IF i = 0 THEN 0 ELSE i - 1

\* line 445: (m.selectedTab - 1 + len(m.tabs)) % len(m.tabs).
PrevTab(i) == (i - 1 + NumTabs) % NumTabs

\* key "tab".
KeyNextTab ==
    /\ prog = "running"
    /\ m' = [m EXCEPT !.selectedTab = NextTab(@)]
    /\ UNCHANGED <<reqVars, now, logVars, killed, sawStopped, pending, prog, ncmds, osVars, tasks, checks, currentServer,
                   cancelled, waiters, relays, logged>>

\* key "shift+tab".
KeyPrevTab ==
    /\ prog = "running"
    /\ m' = [m EXCEPT !.selectedTab = PrevTab(@)]
    /\ UNCHANGED <<reqVars, now, logVars, killed, sawStopped, pending, prog, ncmds, osVars, tasks, checks, currentServer,
                   cancelled, waiters, relays, logged>>

\* key "f5": a status check is issued.
KeyRefresh ==
    /\ prog = "running"
    /\ DispatchCheck
    /\ UNCHANGED <<reqVars, now, logVars, killed, sawStopped, pending, ctlVars, osVars, tasks, currentServer, cancelled,
                   waiters, relays, logged>>

\* loadRequestLogs has returned; case RequestLogsMsg.
DeliverRequestLogs ==
    /\ prog = "running" /\ pending.reqs > 0
    /\ \E l \in LogLists : m' = [m EXCEPT !.requests = l]
    /\ pending' = [pending EXCEPT !.reqs = @ - 1]
    /\ UNCHANGED <<reqVars, now, logVars, killed, sawStopped, prog, ncmds, osVars, tasks, checks, currentServer, cancelled,
                   waiters, relays, logged>>

\* loadSystemLogs has returned; case LogsUpdatedMsg.
DeliverLogsUpdated ==
    /\ prog = "running" /\ pending.logs > 0
    /\ \E l \in LogLists : m' = [m EXCEPT !.logs = l]
    /\ pending' = [pending EXCEPT !.logs = @ - 1]
    /\ UNCHANGED <<reqVars, now, logVars, killed, sawStopped, prog, ncmds, osVars, tasks, checks, currentServer, cancelled,
                   waiters, relays, logged>>

\* The message returned by a start, stop or restart command is processed.
DeliverStatus(t) ==
    /\ Running(t) /\ tasks[t].pc = "done"
    /\ m' = UpdateStatus(tasks[t].res)
    /\ tasks' = [tasks EXCEPT ![t] = Gone]
    /\ sawStopped' = Observe(tasks[t].res.Status)
    /\ UNCHANGED <<reqVars, now, logVars, killed, pending, prog, ncmds, osVars, checks, currentServer, cancelled, waiters,
                   relays, logged>>

\* A variant of DeliverCheck that drops the message.
DeliverCheck_Dropped(c) ==
    /\ prog = "running" /\ checks[c].pc = "done"
    /\ checks' = [checks EXCEPT ![c] = NewCheck("idle")]
    /\ UNCHANGED <<reqVars, now, logVars, killed, m, sawStopped, pending, prog, ncmds, osVars, tasks, currentServer,
                   cancelled, waiters, relays, logged>>

\* The message returned by a status check is processed.
DeliverCheck(c) ==
    /\ prog = "running" /\ checks[c].pc = "done"
    /\ m' = UpdateStatus(checks[c].res)
    /\ checks' = [checks EXCEPT ![c] = NewCheck("idle")]
    /\ sawStopped' = Observe(checks[c].res.Status)
    /\ UNCHANGED <<reqVars, now, logVars, killed, pending, prog, ncmds, osVars, tasks, currentServer, cancelled, waiters,
                   relays, logged>>

----------------------------------------------------------------------------
\* The operating system and the other processes of the machine.

\* The child binds the port.
ChildListen(p) ==
    /\ procs[p] = "alive" /\ portOwner = 0
    /\ portOwner' = p
    /\ UNCHANGED <<reqVars, now, logVars, killed, sawStopped, pending, ctlVars, procs, tasks, checks, currentServer, cancelled,
                   waiters, relays, logged>>

\* The child exits (a signal, a failed bind, a crash): its port is
\* released and its two streams reach end-of-stream, ending their relays.
ChildExit(p) ==
    /\ procs[p] = "alive"
    /\ procs' = [procs EXCEPT ![p] = "zombie"]
    /\ portOwner' = IF portOwner = p THEN 0 ELSE portOwner
    /\ relays' = {r \in relays : r.pid # p}
    /\ UNCHANGED <<reqVars, now, logVars, killed, sawStopped, pending, ctlVars, tasks, checks, currentServer, cancelled,
                   waiters, logged>>

\* exec.CommandContext (server.go line 95): once the context is done
\* os/exec kills the process it started (os.Process.Kill, a SIGKILL to the
\* child alone), whatever signal stopServer sends.
CtxKill(p) ==
    /\ procs[p] = "alive" /\ p \in cancelled
    /\ killed' = killed \cup {p}
    /\ procs' = [procs EXCEPT ![p] = "zombie"]
    /\ portOwner' = IF portOwner = p THEN 0 ELSE portOwner
    /\ relays' = {r \in relays : r.pid # p}
    /\ UNCHANGED <<reqVars, now, logVars, sawStopped, pending, ctlVars, tasks, checks, currentServer, cancelled,
                   waiters, logged>>

\* Another process binds the port.
ExtListen(e) ==
    /\ portOwner = 0
    /\ portOwner' = e
    /\ UNCHANGED <<reqVars, now, logVars, killed, sawStopped, pending, ctlVars, procs, tasks, checks, currentServer, cancelled,
                   waiters, relays, logged>>

\* The other process exits.
ExtExit ==
    /\ portOwner \in ExtPids
    /\ portOwner' = 0
    /\ UNCHANGED <<reqVars, now, logVars, killed, sawStopped, pending, ctlVars, procs, tasks, checks, currentServer, cancelled,
                   waiters, relays, logged>>

----------------------------------------------------------------------------
\* NewDashboardModel and DashboardModel.Init: Stopped, the start-up log
\* line, one status check issued.
InitDashboard ==
    /\ now = 1
    /\ m = [Status |-> ServerStopped, PID |-> 0, lastError |-> "", showError |-> FALSE,
            width |-> 0, height |-> 0, selectedTab |-> 0,
            requests |-> <<>>, logs |-> <<>>,
            startTime |-> now, Uptime |-> 0]
    /\ pending = [ticks |-> 1, reqs |-> 0, logs |-> 0]
    /\ sawStopped = [t \in Tasks |-> FALSE]
    /\ prog = "running"
    /\ ncmds = 0
    /\ tasks = [t \in Tasks |-> Idle]
    /\ checks = [c \in Checks |-> IF c = 1 THEN NewCheck("c_check") ELSE NewCheck("idle")]
    /\ currentServer = None
    /\ cancelled = {}
    /\ procs = [p \in ChildPids |-> "none"]
    /\ portOwner \in {0} \cup ExtPids
    /\ waiters = [p \in ChildPids |-> 0]
    /\ relays = {}
    /\ logged = Log({}, LogSystem, "cli", "Dashboard started")
    /\ killed = {}

\* The logger as init() leaves it (part_000 lines 58-66), with no caller.
NoEntry == [Timestamp |-> 0, Level |-> LogInfo, Source |-> "", Message |-> <<>>]
NoRead == [fn |-> "none", source |-> "", limit |-> 0, result |-> <<>>]
NoArgs == <<>>
LogCallers == {1, 2}

InitLogger ==
    /\ entries = <<>> /\ mu = 0 /\ logFile = <<>> /\ writers = {} /\ clock = 1
    /\ calls = [c \in LogCallers |-> [pc |-> "idle", args |-> NoArgs, entry |-> NoEntry, left |-> 0]]
    /\ stream = <<>> /\ lastRead = NoRead /\ history = <<>>

\* No request log has been written and none was loaded.
NoFile == [exists |-> FALSE, readable |-> FALSE, data |-> <<>>]
NoLoad == [returned |-> FALSE, Logs |-> <<>>]

InitRequests == requestsFile = NoFile /\ loaded = NoLoad

Init == InitDashboard /\ InitLogger /\ InitRequests

Next ==
    \/ \E t \in Tasks :
          \/ StartCheck(t) \/ StartBuild(t) \/ StartRecord(t)
          \/ StopTest(t) \/ StopReadCmd(t) \/ StopCancel(t) \/ StopKill(t)
          \/ StopClear(t)
          \/ StopLookup(t) \/ StopTerm(t)
          \/ RestartBegin(t) \/ RestartCool(t)
          \/ DeliverStatus(t)
    \/ \E c \in Checks : CheckPort(c) \/ DeliverCheck(c)
    \/ \E p \in ChildPids : WaitExit(p) \/ ChildListen(p) \/ ChildExit(p)
    \/ \E e \in ExtPids : ExtListen(e)
    \/ ExtExit
    \/ KeyStart \/ KeyStop \/ KeyRestart \/ KeyClear
    \/ Tick

Spec == Init /\ [][Next]_vars

\* The same program in a healthy environment (lsof works, the builds and
\* cmd.Start() succeed, no other process uses the port), with one more
\* command.
InitStop == Init /\ portOwner = 0

NextStop ==
    \/ \E t \in Tasks :
          \/ StartCheckIn(t, {TRUE}) \/ StartBuildIn(t, {0}) \/ StartRecord(t)
          \/ StopTest(t) \/ StopReadCmd(t) \/ StopCancel(t) \/ StopKill(t)
          \/ StopClear(t)
          \/ StopLookupIn(t, {TRUE}) \/ StopTerm(t)
          \/ RestartBegin(t) \/ RestartCool(t)
          \/ DeliverStatus(t)
    \/ \E c \in Checks : CheckPortIn(c, {TRUE}) \/ DeliverCheck(c)
    \/ \E p \in ChildPids : WaitExit(p) \/ ChildListen(p) \/ ChildExit(p)
    \/ KeyStartUpTo(MaxCmds + 1) \/ KeyStopUpTo(MaxCmds + 1)
    \/ KeyRestartUpTo(MaxCmds + 1)
    \/ Tick

SpecStop == InitStop /\ [][NextStop]_vars

\* The commands over the healthy environment, MaxCmds of them, with the
\* kill that os/exec delivers when a child's context is cancelled.
NextCtx ==
    \/ \E t \in Tasks :
          \/ StartCheckIn(t, {TRUE}) \/ StartBuildIn(t, {0}) \/ StartRecord(t)
          \/ StopTest(t) \/ StopReadCmd(t) \/ StopCancel(t) \/ StopKill(t)
          \/ StopClear(t)
          \/ StopLookupIn(t, {TRUE}) \/ StopTerm(t)
          \/ RestartBegin(t) \/ RestartCool(t)
          \/ DeliverStatus(t)
    \/ \E c \in Checks : CheckPortIn(c, {TRUE}) \/ DeliverCheck(c)
    \/ \E p \in ChildPids : WaitExit(p) \/ ChildListen(p) \/ ChildExit(p) \/ CtxKill(p)
    \/ KeyStart \/ KeyStop \/ KeyRestart
    \/ Tick

SpecCtx == InitStop /\ [][NextCtx]_vars

\* The whole of Update, with every message it handles, over the same
\* healthy environment and MaxCmds commands.
NextCtl ==
    \/ \E t \in Tasks :
          \/ StartCheckIn(t, {TRUE}) \/ StartBuildIn(t, {0}) \/ StartRecord(t)
          \/ StopTest(t) \/ StopReadCmd(t) \/ StopCancel(t) \/ StopKill(t)
          \/ StopClear(t)
          \/ StopLookupIn(t, {TRUE}) \/ StopTerm(t)
          \/ RestartBegin(t) \/ RestartCool(t)
          \/ DeliverStatus(t)
    \/ \E c \in Checks : CheckPortIn(c, {TRUE}) \/ DeliverCheck(c)
    \/ \E p \in ChildPids : WaitExit(p) \/ ChildListen(p) \/ ChildExit(p)
    \/ KeyStart \/ KeyStop \/ KeyRestart \/ KeyClear
    \/ KeyQuit \/ KeyNextTab \/ KeyPrevTab \/ KeyRefresh
    \/ WindowSize
    \/ TickIn(TRUE)
    \/ DeliverRequestLogs \/ DeliverLogsUpdated

SpecCtl == InitStop /\ [][NextCtl]_vars

\* The program with its scheduling: the runtime runs every command it was
\* handed and delivers every message, and the timer fires.  The builds
\* and cmd.Start() succeed; lsof may fail in a status check; another
\* process may hold the port at the beginning.
TaskStep ==
    \E t \in Tasks :
       \/ StartCheckIn(t, {TRUE}) \/ StartBuildIn(t, {0}) \/ StartRecord(t)
       \/ StopTest(t) \/ StopReadCmd(t) \/ StopCancel(t) \/ StopKill(t)
       \/ StopClear(t)
       \/ StopLookupIn(t, {TRUE}) \/ StopTerm(t)
       \/ RestartBegin(t) \/ RestartCool(t)

DeliverAny == \E t \in Tasks : DeliverStatus(t)
CheckAny == \E c \in Checks : CheckPort(c)
DeliverCheckAny == \E c \in Checks : DeliverCheck(c)

NextLive ==
    \/ TaskStep
    \/ DeliverAny
    \/ CheckAny
    \/ DeliverCheckAny
    \/ \E p \in ChildPids : WaitExit(p) \/ ChildListen(p) \/ ChildExit(p)
    \/ ExtExit
    \/ KeyStart \/ KeyStop \/ KeyRestart
    \/ Tick

SpecLive ==
    /\ Init /\ [][NextLive]_vars
    /\ WF_vars(TaskStep) /\ WF_vars(DeliverAny)
    /\ WF_vars(CheckAny) /\ WF_vars(DeliverCheckAny)
    /\ WF_vars(Tick)

----------------------------------------------------------------------------
\* What the claims speak about.

Has(seq, x) == \E i \in DOMAIN seq : seq[i] = x

IsPrefix(a, b) == Len(a) <= Len(b) /\ SubSeq(b, 1, Len(a)) = a

\* The steps of the startServer call of a command: a restart's come after
\* its stop and its cooldown.
StartTrace(tk) ==
    IF tk.kind = "restart"
    THEN IF Has(tk.trace, "cooldown") THEN SubSeq(tk.trace, 4, Len(tk.trace)) ELSE <<>>
    ELSE tk.trace

ExpectedSteps == <<"make wasm", "make server", "stdout pipe", "stderr pipe", "start">>

StartEvents == {"inuse", "make wasm", "make server", "stdout pipe", "stderr pipe",
                "start", "record"}

ExpectedError(step) ==
    CASE step = "make wasm" -> "failed to build WASM"
      [] step = "make server" -> "failed to build server"
      [] step = "stdout pipe" -> "failed to create stdout pipe"
      [] step = "stderr pipe" -> "failed to create stderr pipe"
      [] step = "start" -> "failed to start server"
      [] OTHER -> "?"

LiveChildren == {p \in ChildPids : procs[p] = "alive"}

----------------------------------------------------------------------------
\* C1: at most one supervised child exists at any time, in every
\* interleaving of the commands, ticks and completion messages: the number
\* of children spawned and still alive never exceeds one.
C1_AtMostOneChild == Cardinality(LiveChildren) <= 1

\* C2 as claimed: a Start whose port test runs while the port is occupied
\* performs no build, spawns nothing, leaves the handle unchanged and
\* returns Running with the looked-up PID and no error.
C2_OccupiedPortNeverBuilds ==
    [][\A t \in Tasks :
          tasks[t].pc = "s_check" /\ tasks'[t] # tasks[t] /\ portOwner # 0
          => /\ tasks'[t].pc = "done"
             /\ tasks'[t].res.Status = ServerRunning
             /\ tasks'[t].res.Error = NoError]_vars

\* C2 as amended: a Start whose port test finds the port occupied (which
\* it does only if the port is occupied) performs no build, spawns no
\* child, leaves the handle unchanged and returns Running with the PID
\* reported by the port-owner lookup (0 if that lookup fails) and no error.
C2_FoundOccupied ==
    \A t \in Tasks : LET tk == tasks[t] IN
       Has(tk.trace, "inuse")
       => /\ tk.pc = "done" /\ StartTrace(tk) = <<"inuse">>
          /\ tk.child = 0 /\ procs[t] = "none"
          /\ tk.res.Status = ServerRunning /\ tk.res.Error = NoError

C2_FoundOccupiedStep ==
    \A t \in Tasks :
          tasks[t].pc = "s_check" /\ tasks'[t].pc = "done"
          => /\ portOwner # 0
             /\ tasks'[t].res.Status = ServerRunning
             /\ tasks'[t].res.PID \in {portOwner, 0}
             /\ tasks'[t].res.Error = NoError
             /\ \A e \in StartEvents \ {"inuse"} : ~Has(tasks'[t].trace, e)
             /\ tasks'[t].child = 0
             /\ procs' = procs /\ relays' = relays
             /\ currentServer' = currentServer
             /\ logged' = logged

C2_FoundOccupiedReportsOwner == []C2_FoundOccupied /\ [][C2_FoundOccupiedStep]_vars

C2_Witness ==
    \E t \in Tasks : /\ tasks[t].pc = "done" /\ Has(tasks[t].trace, "inuse")
                     /\ tasks[t].res.PID = portOwner /\ portOwner \in ExtPids

\* C3: a Start on a free port runs make wasm, then make server, then
\* creates the pipes and spawns the child, in this order and each only
\* after the one before succeeded; it records the spawned child as
\* currentServer and returns Running with the child's PID and no error.
C3_Steps ==
    \A t \in Tasks : LET tk == tasks[t] IN
       tk.child # 0
       => /\ tk.child = t /\ procs[t] # "none"
          /\ IsPrefix(ExpectedSteps, StartTrace(tk))
          /\ tk.pc \in {"s_record", "done"}
          /\ tk.pc = "done"
             => /\ tk.res = ServerStatusMsg(ServerRunning, tk.child, NoError)
                /\ StartTrace(tk) = ExpectedSteps \o <<"record">>

C3_Step ==
    \A t \in Tasks :
       /\ tasks[t].pc = "s_check" /\ tasks'[t] # tasks[t] /\ portOwner = 0
          => tasks'[t].pc = "s_build"
       /\ procs[t] = "none" /\ procs'[t] # "none"
          => /\ tasks[t].pc = "s_build" /\ tasks'[t].pc = "s_record"
             /\ tasks'[t].child = t /\ procs'[t] = "alive"
       /\ tasks[t].pc = "s_record" /\ tasks'[t] # tasks[t]
          => /\ tasks'[t].pc = "done"
             /\ currentServer' = [pid |-> tasks[t].child, ctx |-> t]

C3_StartOnFreePort == []C3_Steps /\ [][C3_Step]_vars

C3_Witness ==
    \E t \in Tasks : /\ tasks[t].pc = "done" /\ tasks[t].child # 0
                     /\ tasks[t].res.Status = ServerRunning
                     /\ currentServer.pid = tasks[t].child

\* C4: a Start whose first build step fails returns Stopped with the
\* build-failure error, never runs the second build, spawns nothing, and
\* no supervised instance is held afterwards.
C4_FailedBuildHoldsNothing ==
    \A t \in Tasks : LET tk == tasks[t] IN
       tk.pc = "done" /\ tk.failed = "make wasm"
       => /\ tk.res = ServerStatusMsg(ServerStopped, 0, "failed to build WASM")
          /\ ~Has(tk.trace, "make server")
          /\ tk.child = 0
          /\ currentServer = None

\* C5 as claimed: after a Start whose first build fails the log holds an
\* entry of severity System that records the failure.
C5_FailureLoggedAsSystem ==
    \A t \in Tasks :
       tasks[t].pc = "done" /\ tasks[t].failed = "make wasm"
       => \E e \in logged : e.Level = LogSystem /\ e.Message = "Failed to build WASM"

\* C5 as amended: after a Start whose first build fails the log holds an
\* entry of severity Error, source cli, that records the failure; the
\* entry of severity System of that build is its announcement.
C5_FailureLoggedAsError ==
    \A t \in Tasks :
       tasks[t].pc = "done" /\ tasks[t].failed = "make wasm"
       => /\ [Level |-> LogError, Source |-> "cli", Message |-> "Failed to build WASM"]
                \in logged
          /\ [Level |-> LogSystem, Source |-> "cli", Message |-> "Building WASM..."]
                \in logged
          /\ \A e \in logged : e.Message = "Failed to build WASM" => e.Level = LogError

C5_Witness ==
    \E t \in Tasks : tasks[t].pc = "done" /\ tasks[t].failed = "make wasm"

\* C6: every failing Start (make wasm, make server, stdout pipe, stderr
\* pipe, cmd.Start) is terminal: it returns Stopped with the error of the
\* step that failed, the five errors being distinct; no later step of the
\* sequence runs, nothing is spawned; and the failed command is only
\* delivered, never run again.
C6_Failed ==
    \A t \in Tasks : LET tk == tasks[t] IN
       tk.failed # ""
       => /\ tk.pc = "done"
          /\ tk.res = ServerStatusMsg(ServerStopped, 0, ExpectedError(tk.failed))
          /\ IsPrefix(StartTrace(tk), ExpectedSteps)
          /\ StartTrace(tk)[Len(StartTrace(tk))] = tk.failed
          /\ tk.child = 0 /\ procs[t] = "none"

C6_Step ==
    \A t \in Tasks :
       tasks[t].failed # "" /\ tasks'[t] # tasks[t]
       => /\ tasks'[t] = Gone
          /\ ncmds' = ncmds
          /\ \A u \in Tasks \ {t} : tasks'[u] = tasks[u]
          /\ procs' = procs /\ currentServer' = currentServer

C6_FailureIsTerminal == []C6_Failed /\ [][C6_Step]_vars

C6_Witness ==
    \E t \in Tasks : tasks[t].pc = "done" /\ tasks[t].failed = "stderr pipe"

\* C7: a Stop that finds a held instance sends SIGTERM to the process
\* group of the child, returns Stopped without waiting for the child to
\* exit, and leaves currentServer empty.
C7_StopHeldSignalsGroup ==
    \A t \in Tasks : LET tk == tasks[t] IN
       tk.kind = "stop" /\ tk.pc = "done" /\ Has(tk.trace, "held")
       => /\ Len(tk.sigs) = 1
          /\ tk.sigs[1].to = -tk.pid /\ tk.sigs[1].sig = "SIGTERM"
          /\ tk.res = ServerStatusMsg(ServerStopped, 0, NoError)

\* C8: a Stop that finds no held instance looks the owner of the port up;
\* with no owner found it sends no signal; with an owner found it sends
\* SIGTERM to it, and SIGKILL if and only if the SIGTERM failed.
C8_Fallback ==
    \A t \in Tasks : LET tk == tasks[t] IN
       Has(tk.trace, "fallback")
       => /\ ~Has(tk.trace, "stopped") => tk.sigs = <<>>
          /\ Has(tk.trace, "stopped") /\ tk.pid = 0 => tk.sigs = <<>>
          /\ Has(tk.trace, "stopped") /\ tk.pid # 0
             => /\ Len(tk.sigs) \in {1, 2}
                /\ tk.sigs[1].to = tk.pid /\ tk.sigs[1].sig = "SIGTERM"
                /\ Len(tk.sigs) = 2 <=> ~tk.sigs[1].ok
                /\ Len(tk.sigs) = 2
                   => tk.sigs[2].to = tk.pid /\ tk.sigs[2].sig = "SIGKILL"

C8_Step ==
    \A t \in Tasks :
       /\ tasks[t].pc = "x_test" /\ tasks'[t] # tasks[t] /\ currentServer = None
          => tasks'[t].pc = "x_lookup" /\ tasks'[t].sigs = <<>>
       /\ tasks[t].pc = "x_lookup" /\ tasks'[t] # tasks[t]
          => /\ tasks'[t].pid \in {portOwner, 0}
             /\ tasks'[t].pid = 0 <=> Has(tasks'[t].trace, "stopped")
             /\ tasks'[t].pid # 0 <=> tasks'[t].pc = "x_term"
       /\ tasks[t].pc = "x_term" /\ tasks'[t] # tasks[t]
          => /\ tasks'[t].sigs[1].ok = KillOk(tasks[t].pid)
             /\ Has(tasks'[t].trace, "stopped")

C8_StopWithoutHandle == []C8_Fallback /\ [][C8_Step]_vars

C8_Witness ==
    \E t \in Tasks : /\ Has(tasks[t].trace, "fallback") /\ Has(tasks[t].trace, "stopped")
                     /\ Len(tasks[t].sigs) = 2

\* C9: on every Stop path a failed SIGTERM is followed by exactly one
\* SIGKILL from the same Stop, and the failure is in the log.
C9_FailedTermEscalated ==
    \A t \in Tasks : LET sg == tasks[t].sigs IN
       \A i \in DOMAIN sg :
          sg[i].sig = "SIGTERM" /\ ~sg[i].ok
          => /\ i + 1 = Len(sg) /\ sg[i + 1].sig = "SIGKILL"
             /\ \E e \in logged : e.Message = "SIGTERM failed, using SIGKILL"

\* C10: a Restart runs its Stop to the end, then the cooldown, then its
\* Start: no step of the Start comes before the Stop has returned (having
\* signalled the group when it held an instance whose group it found) and
\* the cooldown has passed; the Restart returns what that Start returns.
C10_RestartOrder ==
    \A t \in Tasks : LET tk == tasks[t] IN
       tk.kind = "restart"
       => /\ tk.pc \in {"s_check", "s_build", "s_record", "done"}
             => /\ Len(tk.trace) >= 3
                /\ tk.trace[1] \in {"held", "fallback"}
                /\ tk.trace[2] = "stopped"
                /\ tk.trace[3] = "cooldown"
                /\ tk.pgid # 0 => Len(tk.sigs) = 1
          /\ \A i \in DOMAIN tk.trace : tk.trace[i] \in StartEvents => i > 3
          /\ tk.pc = "done"
             => \/ /\ StartTrace(tk) = <<"inuse">>
                   /\ tk.res.Status = ServerRunning /\ tk.res.Error = NoError
                \/ /\ tk.failed # ""
                   /\ tk.res = ServerStatusMsg(ServerStopped, 0, ExpectedError(tk.failed))
                \/ /\ StartTrace(tk) = ExpectedSteps \o <<"record">>
                   /\ tk.res = ServerStatusMsg(ServerRunning, tk.child, NoError)

C10_Witness ==
    \E t \in Tasks : /\ tasks[t].kind = "restart" /\ tasks[t].pc = "done"
                     /\ tasks[t].trace[1] = "held" /\ tasks[t].child # 0

\* C11: when the cooldown of a Restart issued while Running elapses and
\* its Start begins, the DashboardState has shown status Stopped at some
\* moment since the Restart was dispatched.
C11_StoppedShownBeforeStart ==
    [][\A t \in Tasks :
          tasks[t].kind = "restart" /\ tasks[t].pc = "r_cool" /\ tasks'[t].pc = "s_check"
          => sawStopped[t]]_vars

\* A status check returns.
CheckReturns(c) == checks[c].pc = "c_check" /\ checks'[c].pc = "done"

\* C12 as claimed: a status check returns Running with the PID of the
\* owner of the port if and only if the port is occupied, and Stopped with
\* PID 0 otherwise.
C12_CheckReportsOccupancy ==
    [][\A c \in Checks :
          CheckReturns(c)
          => checks'[c].res = IF portOwner # 0
                              THEN ServerStatusMsg(ServerRunning, portOwner, NoError)
                              ELSE ServerStatusMsg(ServerStopped, 0, NoError)]_vars

\* C12 as amended: a status check returns Running exactly when its port
\* test reports the port occupied, which it does only while the port is
\* occupied (a failed inspection counts as free), with the PID of the
\* owner lookup (0 when the lookup fails); otherwise Stopped with PID 0;
\* never an error.  The result is determined by the port and the
\* inspections alone, whatever currentServer holds, and the check changes
\* nothing: not the handle, no process, no command (so no signal), no log.
C12_CheckReportsInspection ==
    [][\A c \in Checks :
          CheckReturns(c)
          => /\ checks'[c].res \in
                  IF portOwner # 0
                  THEN {ServerStatusMsg(ServerRunning, portOwner, NoError),
                        ServerStatusMsg(ServerRunning, 0, NoError),
                        ServerStatusMsg(ServerStopped, 0, NoError)}
                  ELSE {ServerStatusMsg(ServerStopped, 0, NoError)}
             /\ currentServer' = currentServer /\ cancelled' = cancelled
             /\ procs' = procs /\ portOwner' = portOwner /\ waiters' = waiters
             /\ tasks' = tasks /\ logged' = logged /\ m' = m]_vars

C12_Witness ==
    \E c \in Checks : /\ checks[c].pc = "done" /\ currentServer # None
                       /\ checks[c].res = ServerStatusMsg(ServerRunning, 0, NoError)

\* C13: once a Stop has completed, a status check that runs while the port
\* is unoccupied returns Stopped with PID 0 and no error, whatever
\* currentServer holds and whatever the commands have done before.
C13_FreePortReportsStopped ==
    [][\A c \in Checks :
          CheckReturns(c) /\ portOwner = 0
          => checks'[c].res = ServerStatusMsg(ServerStopped, 0, NoError)]_vars

C13_Witness ==
    \E c \in Checks, t \in Tasks :
       /\ checks[c].pc = "done" /\ checks[c].res.Status = ServerStopped
       /\ tasks[t].kind = "stop" /\ tasks[t].pc = "done"
       /\ currentServer # None /\ portOwner = 0

\* The status shown agrees with the port, whose owner is k.
Settled(k) == prog = "running" => (m.Status = ServerRunning <=> k # 0)

\* C14 as claimed: if the port stops changing hands, then with every
\* command run, every message delivered and the timer firing, the status
\* shown eventually agrees with the port (Running iff occupied) and goes
\* on agreeing.
C14_StatusConverges ==
    \A k \in {0} \cup Pids : <>[](portOwner = k) => <>[]Settled(k)

\* C14 as amended: the same, provided that from some moment on lsof can be
\* run in every status check.
C14_StatusConvergesIfInspected ==
    \A k \in {0} \cup Pids :
       <>[](portOwner = k) /\ <>[](\A c \in Checks : ~checks[c].failed)
       => <>[]Settled(k)

C14_Witness ==
    /\ portOwner # 0 /\ m.Status = ServerStopped /\ m.PID = 0 /\ ncmds = MaxCmds
    /\ \A t \in Tasks : tasks[t].kind = "none"
    /\ \E c \in Checks : checks[c].pc = "done" /\ checks[c].res.Status = ServerRunning

\* C15: a command is dispatched only by a key, one at a time: a Start only
\* while status Stopped is shown, a Stop or a Restart only while Running is
\* shown, and the dispatch leaves the DashboardState as it is; in any other
\* status the keys s, x and r have no effect at all.
C15_Dispatch ==
    ncmds' # ncmds
    => /\ ncmds' = ncmds + 1 /\ m' = m
       /\ \A t \in Tasks \ {ncmds'} : tasks'[t] = tasks[t]
       /\ \/ /\ tasks'[ncmds'] = NewTask("start", "s_check")
             /\ m.Status = ServerStopped
          \/ /\ tasks'[ncmds'] \in {NewTask("stop", "x_test"), NewTask("restart", "r_begin")}
             /\ m.Status = ServerRunning

C15_NoEffect ==
    /\ m.Status # ServerStopped => ~ENABLED <<KeyStart>>_vars
    /\ m.Status # ServerRunning => ~ENABLED <<KeyStop>>_vars /\ ~ENABLED <<KeyRestart>>_vars

C15_KeysGuardedByStatus == []C15_NoEffect /\ [][C15_Dispatch]_vars

C15_Witness ==
    /\ m.Status = ServerRunning /\ ncmds = 1
    /\ tasks[1] = NewTask("restart", "r_begin")

\* C16: an error that is shown stays shown, whatever message is processed,
\* until key "c" clears it (which also empties lastError) or a later
\* error takes its place.
C16_ErrorStaysShown ==
    [][m.showError /\ ~m'.showError => m'.lastError = ""]_vars

\* The commands between the test of currentServer in stopServer (line 161)
\* and its clearing (line 188).
InStopSection == {t \in Tasks : tasks[t].pc \in {"x_readcmd", "x_cancel", "x_kill", "x_clear"}}

\* C17: the handle is accessed under mutual exclusion: no two commands are
\* between the test and the clearing of currentServer at once, and a Stop
\* that found the handle set goes on with that very handle: it has not been
\* cleared or replaced since the test.
C17_HandleExclusive ==
    /\ Cardinality(InStopSection) <= 1
    /\ \A t \in Tasks :
          /\ tasks[t].pc \in {"x_readcmd", "x_cancel"} => currentServer # None
          /\ tasks[t].pc = "x_cancel" => currentServer.pid = tasks[t].pid

\* C18: no interleaving of the commands makes the program panic.
C18_NoCrash == prog # "crashed"

\* The message of command t, of status check c, is processed by Update.
Delivered(t) == tasks[t].pc = "done" /\ tasks'[t] = Gone
DeliveredCheck(c) == checks[c].pc = "done" /\ checks'[c].pc = "idle"

\* C19: the status and the PID shown change only when a ServerStatusMsg is
\* processed, and then become exactly the status and the PID of the
\* message; keys, ticks, window sizes, request logs and system logs leave
\* them as they are.
C19_StatusOnlyFromMessages ==
    [][/\ m'.Status # m.Status \/ m'.PID # m.PID
          => (\E t \in Tasks : Delivered(t)) \/ (\E c \in Checks : DeliveredCheck(c))
       /\ \A t \in Tasks : Delivered(t)
             => m'.Status = tasks[t].res.Status /\ m'.PID = tasks[t].res.PID
       /\ \A c \in Checks : DeliveredCheck(c)
             => m'.Status = checks[c].res.Status /\ m'.PID = checks[c].res.PID]_vars

C19_Witness ==
    /\ m.Status = ServerRunning /\ m.PID \in ChildPids
    /\ m.width # 0 /\ m.selectedTab # 0
    /\ m.requests # <<>> /\ m.logs # <<>>
    /\ ncmds = MaxCmds

\* C20: one timer is pending at any time while the dashboard runs, from
\* Init on; a processed tick issues one status check, one request-log
\* loader and one system-log loader and sets the next timer, and nothing
\* else issues a loader.
C20_Tick ==
    pending' # pending
    => \/ /\ pending' = [pending EXCEPT !.reqs = @ + 1, !.logs = @ + 1]
          /\ \E c \in Checks :
                /\ checks[c].pc = "idle"
                /\ checks' = [checks EXCEPT ![c] = NewCheck("c_check")]
          /\ m' = m /\ ncmds' = ncmds /\ tasks' = tasks
       \/ /\ \/ pending' = [pending EXCEPT !.reqs = @ - 1]
             \/ pending' = [pending EXCEPT !.logs = @ - 1]
          /\ checks' = checks

C20_OneTickPending ==
    [](prog = "running" => pending.ticks = 1) /\ [][C20_Tick]_vars

C20_Witness ==
    /\ prog = "running" /\ pending = [ticks |-> 1, reqs |-> MaxLoads, logs |-> MaxLoads]
    /\ m.requests # <<>> /\ m.logs # <<>>

\* C21: a tab switch changes nothing but m.selectedTab and dispatches
\* nothing; the index stays within 0 .. NumTabs - 1, goes from the last
\* tab to the first and from the first to the last, and next-tab followed
\* by previous-tab gives the index back.
C21_Step ==
    m'.selectedTab # m.selectedTab
    => /\ m' = [m EXCEPT !.selectedTab = m'.selectedTab]
       /\ m'.selectedTab \in {NextTab(m.selectedTab), PrevTab(m.selectedTab)}
       /\ UNCHANGED <<pending, sawStopped, prog, ncmds, tasks, checks, currentServer,
                      cancelled, procs, portOwner, waiters, relays, logged>>

C21_Index ==
    /\ m.selectedTab \in 0 .. (NumTabs - 1)
    /\ PrevTab(NextTab(m.selectedTab)) = m.selectedTab
    /\ NextTab(PrevTab(m.selectedTab)) = m.selectedTab
    /\ m.selectedTab = NumTabs - 1 => NextTab(m.selectedTab) = 0
    /\ m.selectedTab = 0 => PrevTab(m.selectedTab) = NumTabs - 1
    /\ m.selectedTab > 0 => PrevTab(m.selectedTab) = m.selectedTab - 1
    /\ m.selectedTab < NumTabs - 1 => NextTab(m.selectedTab) = m.selectedTab + 1

C21_TabSwitchIsLocal == []C21_Index /\ [][C21_Step]_vars

C21_Witness ==
    /\ m.selectedTab = NumTabs - 1 /\ m.Status = ServerRunning
    /\ \E t \in Tasks : tasks[t].kind = "stop" /\ tasks[t].pc = "x_kill"

\* C29: a failed lsof counts as a free port with no owner and is no error:
\* checkServerStatus never returns an error and returns Stopped when its
\* lsof fails, a startServer whose lsof fails goes on to the builds as on
\* a free port, and a stopServer without a handle whose lsof fails sends
\* no signal and returns Stopped.
C29_Failed ==
    /\ ~IsPortInUse(FALSE) /\ GetProcessByPort(FALSE) = 0
    /\ \A c \in Checks :
          /\ checks[c].res.Error = NoError
          /\ checks[c].pc = "done" /\ checks[c].failed => checks[c].res = Stopped

C29_Step ==
    /\ \A t \in Tasks :
          StartCheckIn(t, {FALSE}) => tasks'[t] = [tasks[t] EXCEPT !.pc = "s_build"]
    /\ \A t \in Tasks :
          StopLookupIn(t, {FALSE})
          => /\ tasks'[t].sigs = tasks[t].sigs
             /\ tasks'[t].pc \in {"done", "r_cool"}
             /\ tasks'[t].pc = "done" => tasks'[t].res = Stopped
    /\ m'.lastError \notin {m.lastError, ""}
       => \E t \in Tasks, i \in DOMAIN StartSteps :
             Delivered(t) /\ m'.lastError = StartSteps[i].err

C29_InspectionFailureIsFree == []C29_Failed /\ [][C29_Step]_vars

C29_Witness ==
    /\ portOwner \in ExtPids
    /\ \E c \in Checks : checks[c].pc = "done" /\ checks[c].failed
    /\ \E t \in Tasks : tasks[t].kind = "start" /\ tasks[t].pc = "s_build"
    /\ \E t \in Tasks : /\ tasks[t].kind = "stop" /\ tasks[t].pc = "done"
                        /\ tasks[t].sigs = <<>>

\* C30: the cancel() of stopServer ends no child: no child dies of its
\* context being cancelled, a child dies only of a signal or by itself.
C30_CancelIsAdvisory == killed = {}

----------------------------------------------------------------------------
\* The logger (Logger, StreamReader).  A message is the sequence of its
\* characters; a time stamp is the number of the entry built.

\* Bounds of the logger's model.
MaxLogCalls == 2
MaxStream == 2

\* Log line 83: the length above which the oldest entry is dropped.
MaxEntries == 500

\* bufio.MaxScanTokenSize, the buffer of the Scanner that Read creates.
MaxScanTokenSize == 65536

Space == " "
TabChar == "\t"
IsSpace(ch) == ch \in {Space, TabChar}

\* strings.TrimSpace: the string without its leading and trailing white space.
RECURSIVE TrimLeft(_)
TrimLeft(str) ==
    IF str # <<>> /\ IsSpace(Head(str)) THEN TrimLeft(Tail(str)) ELSE str

RECURSIVE TrimRight(_)
TrimRight(str) ==
    IF str # <<>> /\ IsSpace(str[Len(str)])
    THEN TrimRight(SubSeq(str, 1, Len(str) - 1)) ELSE str

\* A variant of TrimSpace that trims the front only.
TrimSpace_LeftOnly(str) == TrimLeft(str)

TrimSpace(str) == TrimRight(TrimLeft(str))

\* LogLevel.String().
LevelString(level) ==
    CASE level = LogInfo -> "INFO"
      [] level = LogWarning -> "WARN"
      [] level = LogError -> "ERROR"
      [] level = LogDebug -> "DEBUG"
      [] level = LogSystem -> "SYSTEM"
      [] OTHER -> "UNKNOWN"

\* Log lines 73-78: the entry.
Entry(time, level, source, message) ==
    [Timestamp |-> time, Level |-> level, Source |-> source,
     Message |-> TrimSpace(message)]

NewEntry(level, source, message) == Entry(clock, level, source, message)

\* A variant of DropOldest with the test one too high.
DropOldest_OffByOne(es) == IF Len(es) > MaxEntries + 1 THEN Tail(es) ELSE es

\* Log lines 83-85.
DropOldest(es) == IF Len(es) > MaxEntries THEN Tail(es) ELSE es

\* writeToFile lines 100-105: the line of an entry.
FormatLine(e) ==
    [Timestamp |-> e.Timestamp, Level |-> LevelString(e.Level),
     Source |-> e.Source, Message |-> e.Message]

\* A variant of GetRecentLogs that returns the oldest entries.
GetRecentLogs_Oldest(es, limit) ==
    LET n == IF limit <= 0 \/ limit > Len(es) THEN Len(es) ELSE limit
    IN  SubSeq(es, 1, n)

\* GetRecentLogs lines 113-125.
GetRecentLogs(es, limit) ==
    LET n == IF limit <= 0 \/ limit > Len(es) THEN Len(es) ELSE limit
    IN  IF n = 0 THEN <<>> ELSE SubSeq(es, Len(es) - n + 1, Len(es))

\* A variant of GetLogsBySource that cuts before it filters.
GetLogsBySource_CutFirst(es, source, limit) ==
    LET cut == IF limit > 0 /\ Len(es) > limit
               THEN SubSeq(es, Len(es) - limit + 1, Len(es)) ELSE es
    IN  SelectSeq(cut, LAMBDA e : e.Source = source)

\* GetLogsBySource lines 132-143.
GetLogsBySource(es, source, limit) ==
    LET filtered == SelectSeq(es, LAMBDA e : e.Source = source)
    IN  IF limit > 0 /\ Len(filtered) > limit
        THEN SubSeq(filtered, Len(filtered) - limit + 1, Len(filtered))
        ELSE filtered

\* The callers: caller 1 is a StreamReader on the child's standard output
\* (server.go line 137), caller 2 a command or the dashboard.
RelayCaller == 1
DirectCaller == 2
RelaySource == "server"
RelayLevel == LogInfo
DirectTags == {<<LogSystem, "cli">>}
Messages == {<<Space, "b", TabChar>>, <<"a", Space, "b">>}
RawLines == {<<Space>>, <<Space, "b">>}
LongLine == [i \in 1 .. MaxScanTokenSize |-> "x"]
Limits == {-1, 0, 1, 2, 10, MaxEntries + 1}
LogLimits == {0, 10}
ReadSources == {"cli", "server", "wasm"}

\* Log lines 73-78: the caller builds the entry, before it takes the lock.
LogBuild(c, level, source, message) ==
    /\ calls' = [calls EXCEPT ![c].pc = "lock",
                              ![c].args = <<level, source, message>>,
                              ![c].entry = NewEntry(level, source, message)]
    /\ clock' = clock + 1

\* A call of Log by a command or the dashboard.
DirectLogIn(msgs) ==
    /\ calls[DirectCaller].pc = "idle" /\ calls[DirectCaller].left > 0
    /\ \E tag \in DirectTags, msg \in msgs :
          /\ calls' = [calls EXCEPT
                          ![DirectCaller].pc = "lock",
                          ![DirectCaller].left = @ - 1,
                          ![DirectCaller].args = <<tag[1], tag[2], msg>>,
                          ![DirectCaller].entry = NewEntry(tag[1], tag[2], msg)]
          /\ clock' = clock + 1
    /\ UNCHANGED <<dashVars, reqVars, now, killed, entries, mu, logFile, writers, stream, lastRead, history>>

\* StreamReader.Read lines 164-168: one turn of the loop.  Scan gives the
\* next line, or false for a line that does not fit the Scanner's buffer
\* together with its newline, and then Read returns.
RelayScan ==
    /\ calls[RelayCaller].pc = "idle" /\ stream # <<>>
    /\ IF Len(Head(stream)) >= MaxScanTokenSize
       THEN /\ calls' = [calls EXCEPT ![RelayCaller].pc = "eof"]
            /\ UNCHANGED <<stream, clock>>
       ELSE /\ stream' = Tail(stream)
            /\ IF TrimSpace(Head(stream)) # <<>>
               THEN LogBuild(RelayCaller, RelayLevel, RelaySource, Head(stream))
               ELSE UNCHANGED <<calls, clock>>
    /\ UNCHANGED <<dashVars, reqVars, now, killed, entries, mu, logFile, writers, lastRead, history>>

\* StreamReader.Read line 164: Scan returns false at the end of the stream
\* and Read returns.
RelayEOF ==
    /\ calls[RelayCaller].pc = "idle" /\ stream = <<>>
    /\ calls' = [calls EXCEPT ![RelayCaller].pc = "eof"]
    /\ UNCHANGED <<dashVars, reqVars, now, killed, entries, mu, logFile, writers, clock, stream, lastRead,
                   history>>

\* Log lines 80-81: Lock and append.
LogAppend(c) ==
    /\ calls[c].pc = "lock" /\ mu = 0
    /\ mu' = c
    /\ entries' = Append(entries, calls[c].entry)
    /\ history' = Append(history, calls[c].entry)
    /\ calls' = [calls EXCEPT ![c].pc = "trim"]
    /\ UNCHANGED <<dashVars, reqVars, now, killed, logFile, writers, clock, stream, lastRead>>

\* Log lines 83-88: drop the oldest entry above the limit, Unlock, and
\* start the goroutine that writes the file.
LogTrim(c) ==
    /\ calls[c].pc = "trim" /\ mu = c
    /\ entries' = DropOldest(entries)
    /\ mu' = 0
    /\ writers' = writers \cup {calls[c].entry}
    /\ calls' = [calls EXCEPT ![c].pc = "idle", ![c].args = NoArgs, ![c].entry = NoEntry]
    /\ UNCHANGED <<dashVars, reqVars, now, killed, logFile, clock, stream, lastRead, history>>

\* A variant of WriteToFile whose goroutine runs again.
WriteToFile_Again(e) ==
    /\ e \in writers
    /\ logFile' = Append(logFile, FormatLine(e))
    /\ UNCHANGED <<dashVars, reqVars, now, killed, entries, mu, writers, clock, calls, stream, lastRead,
                   history>>

\* writeToFile lines 92-107: open for append, write the line, close; an
\* error of OpenFile returns, an error of WriteString is dropped.
WriteToFile(e) ==
    /\ e \in writers
    /\ writers' = writers \ {e}
    /\ \E ok \in BOOLEAN :
          logFile' = IF ok THEN Append(logFile, FormatLine(e)) ELSE logFile
    /\ UNCHANGED <<dashVars, reqVars, now, killed, entries, mu, clock, calls, stream, lastRead, history>>

\* A variant of ReadRecent that does not take the lock.
ReadRecent_NoLock(limit) ==
    /\ lastRead' = [fn |-> "recent", source |-> "", limit |-> limit,
                    result |-> GetRecentLogs(entries, limit)]
    /\ UNCHANGED <<dashVars, reqVars, now, killed, entries, mu, logFile, writers, clock, calls, stream,
                   history>>

\* GetRecentLogs lines 110-111: under RLock, which waits for the writer.
ReadRecent(limit) ==
    /\ mu = 0
    /\ lastRead' = [fn |-> "recent", source |-> "", limit |-> limit,
                    result |-> GetRecentLogs(entries, limit)]
    /\ UNCHANGED <<dashVars, reqVars, now, killed, entries, mu, logFile, writers, clock, calls, stream,
                   history>>

\* GetLogsBySource lines 129-130: under RLock.
ReadBySource(source, limit) ==
    /\ mu = 0
    /\ lastRead' = [fn |-> "source", source |-> source, limit |-> limit,
                    result |-> GetLogsBySource(entries, source, limit)]
    /\ UNCHANGED <<dashVars, reqVars, now, killed, entries, mu, logFile, writers, clock, calls, stream,
                   history>>

\* The i-th of the entries logged before the first state.
FillEntry(i) ==
    Entry(i, IF i % 3 = 0 THEN LogSystem ELSE LogInfo,
          IF i % 3 = 0 THEN "cli" ELSE "server", <<"f", Space>>)

\* Log lines 81-85 applied to the entries lo .. hi, in that order (Len(es)
\* comes first so that the buffer is computed before the later calls).
RECURSIVE LogAll(_, _, _)
LogAll(es, lo, hi) ==
    IF Len(es) >= 0 /\ lo > hi THEN es
    ELSE IF lo = hi THEN DropOldest(Append(es, FillEntry(lo)))
    ELSE LET mid == (lo + hi) \div 2
         IN  LogAll(LogAll(es, lo, mid), mid + 1, hi)

Filled(k) == LogAll(<<>>, 1, k)

Streams == UNION {[1 .. n -> RawLines] : n \in 0 .. MaxStream}

\* The logger after k calls of Log.  The goroutine that writes the first
\* entry to the file has not run yet, the others have, in the order of the
\* calls.
InitLogFrom(k, streams, left) ==
    /\ InitDashboard /\ InitRequests
    /\ entries = Filled(k)
    /\ history = [i \in 1 .. k |-> FillEntry(i)]
    /\ logFile = [i \in 1 .. (k - 1) |-> FormatLine(FillEntry(i + 1))]
    /\ writers = IF k = 0 THEN {} ELSE {FillEntry(1)}
    /\ clock = k + 1
    /\ mu = 0
    /\ calls = [c \in LogCallers |->
                   [pc |-> "idle", args |-> NoArgs, entry |-> NoEntry,
                    left |-> IF c = DirectCaller THEN left ELSE 0]]
    /\ stream \in streams
    /\ lastRead = NoRead

\* The logger from the start of the program: a StreamReader, a direct
\* caller, the file writers and a reader.
InitLog == InitLogFrom(0, Streams, MaxLogCalls)

NextLog ==
    \/ DirectLogIn(Messages) \/ RelayScan \/ RelayEOF
    \/ \E c \in LogCallers : LogAppend(c) \/ LogTrim(c)
    \/ \E e \in writers : WriteToFile(e)
    \/ ReadRecent(0)

SpecLog == InitLog /\ [][NextLog]_vars

\* The same with the buffer at its limit.
MaxRingCalls == 1
RingStreams == {<<<<Space, "b">>>>}
RingMessages == {<<"a">>}

InitRing == InitLogFrom(MaxEntries, RingStreams, MaxRingCalls)

NextRing ==
    \/ DirectLogIn(RingMessages) \/ RelayScan \/ RelayEOF
    \/ \E c \in LogCallers : LogAppend(c) \/ LogTrim(c)
    \/ \E e \in writers : WriteToFile(e)
    \/ \E limit \in LogLimits : ReadRecent(limit)

SpecRing == InitRing /\ [][NextRing]_vars

\* A StreamReader whose stream may hold a line longer than the Scanner's
\* buffer, beside one call of a direct caller.
RelayStreams == UNION {[1 .. n -> RawLines \cup {LongLine}] : n \in 0 .. MaxStream}

InitRelay == InitLogFrom(0, RelayStreams, 1)

NextRelay ==
    \/ DirectLogIn(RingMessages) \/ RelayScan \/ RelayEOF
    \/ \E c \in LogCallers : LogAppend(c) \/ LogTrim(c)
    \/ \E e \in writers : WriteToFile(e)

SpecRelay == InitRelay /\ [][NextRelay]_vars

\* The two read functions, applied with every limit to buffers that calls
\* of Log have built.
MaxBuf == 3
CallArgs == {<<LogSystem, "cli", <<"a">>>>, <<LogInfo, "server", <<Space, "b">>>>,
             <<LogError, "server", <<"c", TabChar>>>>}

RECURSIVE BufferOf(_)
BufferOf(args) ==
    IF args = <<>> THEN <<>>
    ELSE LET n == Len(args)
             a == args[n]
         IN  DropOldest(Append(BufferOf(SubSeq(args, 1, n - 1)),
                               Entry(n, a[1], a[2], a[3])))

Buffers == {BufferOf(args) : args \in UNION {[1 .. n -> CallArgs] : n \in 0 .. MaxBuf}}

InitRead ==
    /\ InitDashboard /\ InitRequests
    /\ entries \in Buffers
    /\ history = entries /\ logFile = <<>> /\ writers = {} /\ clock = Len(entries) + 1
    /\ mu = 0
    /\ calls = [c \in LogCallers |->
                   [pc |-> "idle", args |-> NoArgs, entry |-> NoEntry, left |-> 0]]
    /\ stream = <<>>
    /\ lastRead = NoRead

NextRead ==
    \/ \E limit \in Limits : ReadRecent(limit)
    \/ \E source \in ReadSources, limit \in Limits : ReadBySource(source, limit)

SpecRead == InitRead /\ [][NextRead]_vars

----------------------------------------------------------------------------
\* The logger's properties.

Min(a, b) == IF a <= b THEN a ELSE b
Range(f) == {f[i] : i \in DOMAIN f}

\* The last n elements of a sequence, in their order.
LastN(es, n) == [i \in 1 .. n |-> es[Len(es) - n + i]]

\* What a call with this limit is to return from the buffer es.
RecentOf(es, limit) == IF limit > 0 THEN LastN(es, Min(limit, Len(es))) ELSE es

\* Did this step append caller c's entry, did it end c's critical section.
Appends(c) == calls[c].pc = "lock" /\ calls'[c].pc = "trim"
Unlocks(c) == calls[c].pc = "trim" /\ calls'[c].pc = "idle"

\* C22: outside a call of Log the buffer holds at most MaxEntries = 500
\* entries; once more than 500 entries have been logged, GetRecentLogs(0)
\* is the last 500 entries logged and GetRecentLogs(10) the last 10, both
\* in the order of logging.
C22_Bound ==
    /\ Len(entries) <= MaxEntries + 1
    /\ mu = 0 => Len(entries) <= MaxEntries
    /\ mu = 0 /\ Len(history) > MaxEntries
       => /\ GetRecentLogs(entries, 0) = LastN(history, MaxEntries)
          /\ GetRecentLogs(entries, 10) = LastN(history, 10)

C22_Read ==
    lastRead' # lastRead /\ Len(history) > MaxEntries
    => /\ lastRead'.limit = 0 => lastRead'.result = LastN(history, MaxEntries)
       /\ lastRead'.limit = 10 => lastRead'.result = LastN(history, 10)

C22_RingKeepsLast500 == []C22_Bound /\ [][C22_Read]_vars

C22_Witness ==
    /\ Len(history) = MaxEntries + 2
    /\ lastRead.limit = 0 /\ Len(lastRead.result) = MaxEntries
    /\ lastRead.result[1] = history[3]
    /\ lastRead.result[MaxEntries] = history[MaxEntries + 2]

\* C23: for every buffer and every limit GetRecentLogs returns the last
\* min(limit, size) entries in their order when limit > 0, the whole
\* buffer when limit <= 0 or limit > size, and nothing from an empty buffer.
C23_Function ==
    \A limit \in Limits :
       LET r == GetRecentLogs(entries, limit)
       IN  /\ r = RecentOf(entries, limit)
           /\ limit <= 0 \/ limit > Len(entries) => r = entries
           /\ entries = <<>> => r = <<>>

C23_Read ==
    lastRead' # lastRead /\ lastRead'.fn = "recent"
    => lastRead'.result = RecentOf(entries, lastRead'.limit)

C23_RecentEntries == []C23_Function /\ [][C23_Read]_vars

C23_Witness ==
    /\ lastRead.fn = "recent" /\ lastRead.limit = 2
    /\ Len(entries) = 3
    /\ lastRead.result = <<entries[2], entries[3]>>

\* C24: GetLogsBySource returns the entries of the buffer whose Source is
\* the filter, in the buffer's order, and only the last `limit` of them
\* when limit > 0 and more than `limit` match.
Matching(source) == {i \in DOMAIN entries : entries[i].Source = source}
Nth(S, r) == CHOOSE i \in S : Cardinality({x \in S : x <= i}) = r

BySourceOf(source, limit) ==
    LET S == Matching(source)
        k == Cardinality(S)
        n == IF limit > 0 /\ k > limit THEN limit ELSE k
    IN  [j \in 1 .. n |-> entries[Nth(S, k - n + j)]]

C24_Function ==
    \A source \in ReadSources, limit \in Limits :
       LET r == GetLogsBySource(entries, source, limit)
       IN  /\ r = BySourceOf(source, limit)
           /\ \A j \in DOMAIN r : r[j].Source = source

C24_Read ==
    lastRead' # lastRead /\ lastRead'.fn = "source"
    => /\ lastRead'.result = BySourceOf(lastRead'.source, lastRead'.limit)
       /\ \A j \in DOMAIN lastRead'.result :
             lastRead'.result[j].Source = lastRead'.source

C24_EntriesBySource == []C24_Function /\ [][C24_Read]_vars

C24_Witness ==
    /\ lastRead.fn = "source" /\ lastRead.source = "server" /\ lastRead.limit = 1
    /\ Len(entries) = 3
    /\ entries[1].Source = "server" /\ entries[2].Source = "server"
    /\ entries[3].Source = "cli"
    /\ lastRead.result = <<entries[2]>>

\* C25: the entry Log stores has the level and the source it was called
\* with and the message without its leading and trailing white space;
\* GetRecentLogs returns the stored entries as they are, and no step
\* changes a stored entry (the buffer only grows at its end or loses its
\* head).
IsTrimOf(t, raw) ==
    \E i \in 1 .. (Len(raw) + 1), j \in 0 .. Len(raw) :
       /\ t = SubSeq(raw, i, j)
       /\ \A k \in 1 .. (i - 1) : IsSpace(raw[k])
       /\ \A k \in (j + 1) .. Len(raw) : IsSpace(raw[k])
       /\ t # <<>> => ~IsSpace(t[1]) /\ ~IsSpace(t[Len(t)])

C25_Built ==
    \A c \in LogCallers :
       calls[c].pc \in {"lock", "trim"}
       => /\ calls[c].entry.Level = calls[c].args[1]
          /\ calls[c].entry.Source = calls[c].args[2]
          /\ IsTrimOf(calls[c].entry.Message, calls[c].args[3])

C25_Step ==
    /\ \A c \in LogCallers : Appends(c) => entries' = Append(entries, calls[c].entry)
    /\ entries' # entries
       => \/ \E c \in LogCallers : Appends(c)
          \/ entries' = Tail(entries)
    /\ lastRead' # lastRead /\ lastRead'.limit = 0 => lastRead'.result = entries

C25_RoundTrip == []C25_Built /\ [][C25_Step]_vars

C25_Witness ==
    /\ Len(entries) >= 2
    /\ entries[1] = [Timestamp |-> 1, Level |-> LogSystem, Source |-> "cli",
                     Message |-> <<"b">>]
    /\ lastRead.result = entries

\* C26: with two callers of Log and a reader running concurrently, every
\* entry built is appended exactly once (or still waits for the lock), a
\* read returns at most 500 entries of a buffer no call is in the middle
\* of, and whenever no caller holds the lock the buffer is the last
\* min(500, total) entries in the order in which the appends took the lock.
C26_Buffer ==
    /\ mu = 0 => entries = LastN(history, Min(MaxEntries, Len(history)))
    /\ Cardinality(Range(history)) = Len(history)
    /\ Len(history) + Cardinality({c \in LogCallers : calls[c].pc = "lock"}) = clock - 1

C26_Step ==
    /\ \A c \in LogCallers :
          Appends(c) => mu = 0 /\ mu' = c /\ history' = Append(history, calls[c].entry)
    /\ history' # history => \E c \in LogCallers : Appends(c)
    /\ lastRead' # lastRead
       => /\ Len(lastRead'.result) <= MaxEntries
          /\ lastRead'.result
               = RecentOf(LastN(history, Min(MaxEntries, Len(history))), lastRead'.limit)

C26_ConcurrentLog == []C26_Buffer /\ [][C26_Step]_vars

C26_Witness ==
    /\ mu = 0 /\ stream = <<>> /\ calls[DirectCaller].left = 0
    /\ \A c \in LogCallers : calls[c].pc \in {"idle", "eof"}
    /\ Len(history) = MaxEntries + 2
    /\ history[MaxEntries + 2].Timestamp < history[MaxEntries + 1].Timestamp
    /\ lastRead.limit = 10 /\ lastRead.result = LastN(history, 10)

\* C27: every entry handed to Log gets one writeToFile goroutine, which
\* appends the entry's line to the file once or, when the file cannot be
\* opened or written, not at all; no line is in the file twice, an entry
\* dropped from the buffer is written like any other, and a write, failed
\* or not, changes neither the buffer nor the caller.
C27_File ==
    LET lines == Range(logFile)
        logged1 == Range(history)
    IN  /\ Cardinality(lines) = Len(logFile)
        /\ lines \subseteq {FormatLine(e) : e \in logged1}
        /\ \A e \in writers : e \in logged1 /\ FormatLine(e) \notin lines

C27_Step ==
    /\ \A c \in LogCallers :
          Unlocks(c) => writers' = writers \cup {calls[c].entry} /\ logFile' = logFile
    /\ (writers' # writers \/ logFile' # logFile) /\ ~(\E c \in LogCallers : Unlocks(c))
       => /\ \E e \in writers :
                /\ writers' = writers \ {e}
                /\ logFile' \in {logFile, Append(logFile, FormatLine(e))}
          /\ UNCHANGED <<entries, history, calls, mu, lastRead>>

C27_FileMirror == []C27_File /\ [][C27_Step]_vars

C27_Witness ==
    /\ writers = {} /\ Len(history) = MaxEntries + 2
    /\ entries[1] = history[3]
    /\ logFile[Len(logFile)] = FormatLine(history[1])
    /\ FormatLine(history[MaxEntries + 1]) \in Range(logFile)
    /\ FormatLine(history[MaxEntries + 2]) \notin Range(logFile)

\* C28: the entries a StreamReader has logged or is logging, followed by
\* the trimmed non-blank lines still in its stream, are at every moment
\* the trimmed non-blank lines of the whole stream, in order; and Read
\* returns only at the end of the stream.
Blank(line) == \A i \in DOMAIN line : IsSpace(line[i])

Strip(line) ==
    IF line # <<>> /\ ~IsSpace(line[1]) /\ ~IsSpace(line[Len(line)]) THEN line
    ELSE CHOOSE t \in {SubSeq(line, i, j) : i \in 1 .. (Len(line) + 1), j \in 0 .. Len(line)} :
            IsTrimOf(t, line)

RECURSIVE ToForward(_)
ToForward(str) ==
    IF str = <<>> THEN <<>>
    ELSE (IF Blank(Head(str)) THEN <<>> ELSE <<Strip(Head(str))>>) \o ToForward(Tail(str))

Forwarded ==
    LET own == SelectSeq(history, LAMBDA e : e.Source = RelaySource /\ e.Level = RelayLevel)
    IN  [i \in 1 .. Len(own) |-> own[i].Message]
        \o (IF calls[RelayCaller].pc = "lock"
            THEN <<calls[RelayCaller].entry.Message>> ELSE <<>>)

RelayLines == Forwarded \o ToForward(stream)

C28_Returned == calls[RelayCaller].pc = "eof" => stream = <<>>

C28_RelayForwardsNonBlank == []C28_Returned /\ [][RelayLines' = RelayLines]_vars

----------------------------------------------------------------------------
\* The request-log reader (internal/cli/logs.go).  The file is a sequence
\* of bytes; the text of a whole JSON value is one symbol: "A" and "B" are
\* the texts of two records, "null" the JSON null, "T" an object whose
\* status is a string, "x" anything that is not JSON.
----------------------------------------------------------------------------
NL == "\n"

\* What the records "A" and "B" decode to (the anonymous struct of lines
\* 46-52).
Decoded(sym) ==
    CASE sym = "A" -> [Timestamp |-> 1, Method |-> "GET", Path |-> "/", Status |-> 200,
                       Duration |-> 5]
      [] sym = "B" -> [Timestamp |-> 2, Method |-> "POST", Path |-> "/api", Status |-> 404,
                       Duration |-> 12]
      [] OTHER -> [Timestamp |-> 0, Method |-> "", Path |-> "", Status |-> 0, Duration |-> 0]

\* json.Unmarshal into the struct: nil for one object with fields of the
\* right types and for null (which leaves the struct zero), an error for
\* a field of the wrong type, for text that is not JSON, and for anything
\* after the first value.
UnmarshalOk(line) == Len(line) = 1 /\ line[1] \in {"A", "B", "null"}

\* lines 58-64: time.Duration(log.Duration) * time.Millisecond.
Millisecond == 1000000

RequestLog(log) == [log EXCEPT !.Duration = @ * Millisecond]

\* strings.Split(data, "\n").
RECURSIVE Split(_)
Split(data) ==
    IF \A i \in DOMAIN data : data[i] # NL
    THEN <<data>>
    ELSE LET k == CHOOSE i \in DOMAIN data :
                     data[i] = NL /\ \A j \in 1 .. (i - 1) : data[j] # NL
         IN  <<SubSeq(data, 1, k - 1)>> \o Split(SubSeq(data, k + 1, Len(data)))

\* line 35: the number of segments that are parsed.
RecentSegments == 51

\* A variant of lines 35-38 that starts one segment later.
FirstParsed_Fifty(n) == IF n - 50 < 0 THEN 0 ELSE n - 50

\* lines 35-38: the index (from 0) of the first segment that is parsed.
FirstParsed(n) == IF n - RecentSegments < 0 THEN 0 ELSE n - RecentSegments

\* lines 40-65: the loop over lines[i .. end], from the 1-based index i.
RECURSIVE ParseFrom(_, _)
ParseFrom(lines, i) ==
    IF i > Len(lines) THEN <<>>
    ELSE LET line == TrimSpace(lines[i])
         IN  IF line = <<>> \/ ~UnmarshalOk(line)
             THEN ParseFrom(lines, i + 1)
             ELSE <<RequestLog(Decoded(line[1]))>> \o ParseFrom(lines, i + 1)

\* lines 19-67: the Logs of the message that the command returns.
RequestLogsMsg(file) ==
    IF ~file.exists THEN <<>>
    ELSE IF ~file.readable THEN <<>>
    ELSE LET lines == Split(file.data)
         IN  ParseFrom(lines, FirstParsed(Len(lines)) + 1)

\* The command of loadRequestLogs runs.
LoadRequestLogs ==
    /\ loaded' = [returned |-> TRUE, Logs |-> RequestLogsMsg(requestsFile)]
    /\ UNCHANGED <<dashVars, logVars, killed, now, requestsFile>>

\* The files: a number of older lines, each a record and a newline, and
\* then up to MaxTail bytes.
MaxTail == 3
Bytes == {NL, Space, "A", "B", "null", "T", "x"}
OlderLines == {0, 49, 50}

RECURSIVE Older(_)
Older(k) == IF k = 0 THEN <<>> ELSE Older(k - 1) \o <<IF k % 2 = 0 THEN "A" ELSE "B", NL>>

Tails == UNION {[1 .. n -> Bytes] : n \in 0 .. MaxTail}

Files ==
    {[exists |-> TRUE, readable |-> TRUE, data |-> Older(k) \o t] : k \in OlderLines, t \in Tails}
       \cup {NoFile, [exists |-> TRUE, readable |-> FALSE, data |-> <<"A", NL>>]}

InitReq ==
    /\ InitDashboard /\ InitLogger /\ portOwner = 0
    /\ requestsFile \in Files
    /\ loaded = NoLoad

SpecReq == InitReq /\ [][LoadRequestLogs]_vars

----------------------------------------------------------------------------
\* The segments of the file, from the positions of its newlines: the
\* byte at position i lies in segment 1 + (the newlines before i).  A
\* record position is a record symbol in one of the last 51 segments with
\* nothing but blanks around it in its segment.
Newlines == {i \in DOMAIN requestsFile.data : requestsFile.data[i] = NL}
NumSegments == Cardinality(Newlines) + 1
SegmentOf == [i \in DOMAIN requestsFile.data |-> Cardinality({k \in Newlines : k < i}) + 1]
RecordPositions ==
    LET data == requestsFile.data
        seg == SegmentOf
        n == NumSegments
    IN  {i \in DOMAIN data :
            /\ data[i] \in {"A", "B", "null"}
            /\ seg[i] > n - 51
            /\ \A k \in DOMAIN data :
                  (k # i /\ seg[k] = seg[i] /\ data[k] # NL) => IsSpace(data[k])}

\* C31: the result of the reader holds, in file order, one entry for each
\* well-formed line among the last 51 newline-separated segments of the
\* file, with the fields of that line; blank and malformed lines add
\* nothing; a missing or unreadable file gives the empty list; the file
\* is not changed.
C31_Result ==
    loaded.returned =>
       LET recs == RecordPositions
       IN  IF requestsFile.exists /\ requestsFile.readable
           THEN /\ Len(loaded.Logs) = Cardinality(recs)
                /\ \A i \in recs :
                      loaded.Logs[Cardinality({k \in recs : k <= i})] =
                         [Decoded(requestsFile.data[i]) EXCEPT !.Duration = @ * 1000000]
           ELSE loaded.Logs = <<>>

C31_Step == requestsFile' = requestsFile /\ loaded'.returned

C31_RecentRecords == []C31_Result /\ [][C31_Step]_vars

C31_Witness ==
    /\ loaded.returned /\ Len(loaded.Logs) = 49
    /\ Len(requestsFile.data) = 103 /\ NumSegments = 52
    /\ SubSeq(requestsFile.data, 1, 2) = <<"B", NL>>
    /\ SubSeq(requestsFile.data, 101, 103) = <<"x", NL, Space>>

----------------------------------------------------------------------------
\* The statuses that are ever shown.
----------------------------------------------------------------------------
Shown == {ServerStopped, ServerRunning}

\* The commands that have been dispatched and have not returned.
InFlight(kind) == {t \in Tasks : tasks[t].kind = kind /\ tasks[t].pc # "done"}

C32_Statuses ==
    /\ m.Status \in Shown
    /\ \A t \in Tasks : tasks[t].res.Status \in Shown
    /\ \A c \in Checks : checks[c].res.Status \in Shown

C32_Step ==
    /\ \A t \in Tasks :
          /\ tasks[t].kind = "none" /\ tasks'[t].kind = "start" => m'.Status = ServerStopped
          /\ tasks[t].kind = "none" /\ tasks'[t].kind \in {"stop", "restart"}
                => m'.Status = ServerRunning
    /\ m'.Status # m.Status
          => \/ \E c \in Checks : DeliveredCheck(c) /\ m'.Status = checks[c].res.Status
             \/ \E t \in Tasks : Delivered(t) /\ m'.Status = tasks[t].res.Status

\* C32 (as amended): the status shown, and the status of every result, is
\* Stopped or Running, never Starting or Stopping; a Start is dispatched
\* under Stopped, a Stop or a Restart under Running, and no step of an
\* operation in flight changes the status shown: it changes only when a
\* result is applied, that of an operation or that of a status check.
C32_OnlyStoppedOrRunning == []C32_Statuses /\ [][C32_Step]_vars

C32_Witness ==
    \E t \in Tasks :
       /\ tasks[t].kind = "start" /\ tasks[t].pc = "s_record"
       /\ procs[tasks[t].child] = "alive" /\ portOwner = tasks[t].child
       /\ m.Status = ServerStopped

\* C32 as stated: moreover the status is Stopped as long as a Start is in
\* flight and Running as long as a Stop or a Restart is in flight.
C32_StatusFixedInFlight ==
    /\ C32_Statuses
    /\ InFlight("start") # {} => m.Status = ServerStopped
    /\ InFlight("stop") \cup InFlight("restart") # {} => m.Status = ServerRunning

----------------------------------------------------------------------------
\* A Start that fails.
----------------------------------------------------------------------------
C33_Failed ==
    \A t \in Tasks :
       tasks[t].failed # ""
          => /\ t \in cancelled
             /\ currentServer.ctx # t
             /\ procs[t] = "none"
             /\ ~\E r \in relays : r.pid = t

C33_Step ==
    \A t \in Tasks :
       /\ tasks[t].pc \in {"s_check", "s_build"} /\ tasks'[t] # tasks[t]
             => currentServer' = currentServer
       /\ tasks[t].failed = "" /\ tasks'[t].failed # ""
             => /\ cancelled' = cancelled \cup {t} /\ t \notin cancelled
                /\ relays' = relays /\ procs' = procs /\ portOwner' = portOwner
                /\ tasks'[t].pc = "done"
                /\ tasks'[t].res.Status = ServerStopped /\ tasks'[t].res.Error # NoError

\* C33: the step in which a build, a pipe or the spawn of a Start fails
\* leaves currentServer as it is (as does every earlier step of that
\* Start), cancels the context that this Start created, starts no relay
\* and no process, and returns Stopped with the error; afterwards the
\* failed Start's context stays cancelled and is never the held one.
C33_FailedStartFrame == []C33_Failed /\ [][C33_Step]_vars

C33_Witness ==
    \E t \in Tasks :
       /\ tasks[t].failed = "start"
       /\ currentServer # None /\ currentServer.ctx \notin cancelled
       /\ t \in cancelled

----------------------------------------------------------------------------
\* What a Stop returns, and the PID that is shown.
----------------------------------------------------------------------------
\* The stops that were begun: those of the key 'x' and those of a restart.
StopBegun(tk) == Has(tk.trace, "held") \/ Has(tk.trace, "fallback")
StopReturned(tk) == Has(tk.trace, "stopped")

\* C34: every Stop that was begun returns, and returns Stopped with PID 0
\* and no error: at any time it has either returned that message or is
\* still on its way in a program that runs.
C34_StopReturnsStopped ==
    \A t \in Tasks :
       /\ tasks[t].kind = "stop" /\ tasks[t].pc = "done" => tasks[t].res = Stopped
       /\ StopBegun(tasks[t]) /\ ~StopReturned(tasks[t]) => prog # "crashed"

C35_Results ==
    /\ m.Status = ServerStopped => m.PID = 0
    /\ m.PID \in {0} \cup Pids
    /\ \A t \in Tasks :
          /\ tasks[t].res.Status = ServerStopped => tasks[t].res.PID = 0
          /\ tasks[t].pc = "done" /\ Has(tasks[t].trace, "record")
                => tasks[t].res = ServerStatusMsg(ServerRunning, tasks[t].child, NoError)
                   /\ tasks[t].child \in ChildPids
    /\ \A c \in Checks : checks[c].res.Status = ServerStopped => checks[c].res.PID = 0

C35_Step ==
    /\ \A t \in Tasks : Delivered(t) => m'.PID = tasks[t].res.PID
    /\ \A c \in Checks : DeliveredCheck(c) => m'.PID = checks[c].res.PID
    /\ \A c \in Checks :
          CheckReturns(c) /\ checks'[c].res.Status = ServerRunning
             => portOwner # 0 /\ checks'[c].res.PID \in {0, portOwner}

\* C35 (as amended): whenever the status shown is Stopped the PID shown is
\* 0; a result that is applied stores its own PID; the Running result of a
\* Start that spawned carries the child's pid, which is not 0; the Running
\* result of a status check carries what the owner lookup returned: the
\* owner of the port, or 0 when the lookup failed.
C35_PidOfStatus == []C35_Results /\ [][C35_Step]_vars

C35_Witness ==
    /\ m.Status = ServerRunning /\ m.PID = 0
    /\ portOwner # 0
    /\ \E t \in Tasks : tasks[t] = Gone

\* C35 as stated: Stopped is shown with PID 0 and Running with a PID that
\* is not 0.
C35_RunningHasPid ==
    /\ m.Status = ServerStopped => m.PID = 0
    /\ m.Status = ServerRunning => m.PID # 0

----------------------------------------------------------------------------
\* The start time and the uptime.
----------------------------------------------------------------------------
MaxNow == 3

\* Time passes.
Advance ==
    /\ now < MaxNow
    /\ now' = now + 1
    /\ UNCHANGED <<dashVars, killed, logVars, reqVars>>

\* lines 842-846: what updateUptime makes of its receiver, which is a copy
\* of the model that Update holds (the method has a value receiver).
UpdateUptime(mm) ==
    IF mm.Status = ServerRunning /\ mm.startTime # ZeroTime
    THEN [mm EXCEPT !.Uptime = now - mm.startTime]
    ELSE mm

\* The program with its clock; the builds and cmd.Start() succeed, lsof
\* may fail in a status check, another process may hold the port at the
\* beginning.
NextTime == NextLive \/ Advance

SpecTime == Init /\ [][NextTime]_vars

\* C36: a tick processed while the status is Running and the start time
\* is set leaves, in the model that Update returns, the uptime that
\* updateUptime computes: the time since the start time.
C36_TickStoresUptime ==
    [][Tick /\ m.Status = ServerRunning /\ m.startTime # ZeroTime
          => m'.Uptime = UpdateUptime(m).Uptime /\ m'.Uptime = now - m.startTime]_vars

C37_Stopped == m.Status = ServerStopped => m.startTime = ZeroTime /\ m.Uptime = 0

C37_Step ==
    m'.startTime # m.startTime
       => \/ m'.Status = ServerStopped /\ m'.startTime = ZeroTime
          \/ m'.Status = ServerRunning /\ m.startTime = ZeroTime /\ m'.startTime = now

\* C37: in every state, the initial one included, status Stopped implies
\* a zero start time and a zero uptime; the start time changes only when a
\* Stopped result zeroes it or a Running result sets a zero start time to
\* the current time, so that consecutive Running results keep it.
C37_StartTimeFollowsStatus == []C37_Stopped /\ [][C37_Step]_vars

----------------------------------------------------------------------------
\* The quit command.
----------------------------------------------------------------------------
\* The signals that the commands have sent so far.
SignalsSent == [t \in Tasks |-> tasks[t].sigs]

C38_Step ==
    prog' = "quit"
       => /\ tasks' = tasks /\ ncmds' = ncmds /\ checks' = checks
          /\ SignalsSent' = SignalsSent
          /\ currentServer' = currentServer /\ cancelled' = cancelled /\ killed' = killed
          /\ prog = "running" => procs' = procs /\ portOwner' = portOwner /\ m' = m

\* C38: the step that processes the quit command dispatches no command,
\* sends no signal, cancels no context and leaves the handle and the
\* processes as they are; after it no command is dispatched or continued,
\* no signal is sent and the handle stays as it was: a held child that
\* runs when the dashboard quits goes on running.
C38_QuitLeavesChild == [][C38_Step]_vars

C38_Witness ==
    /\ prog = "quit"
    /\ currentServer # None /\ procs[currentServer.pid] = "alive"
    /\ portOwner = currentServer.pid
    /\ currentServer.ctx \notin cancelled
    /\ \A t \in Tasks : tasks[t].sigs = <<>>

----------------------------------------------------------------------------
\* The order of the lines of the log file.
----------------------------------------------------------------------------
\* C39: the lines of the log file are in the order in which their entries
\* were appended to the buffer: of two lines, the earlier one belongs to
\* the entry that was appended earlier.
C39_MirrorInAppendOrder ==
    \A i, j \in DOMAIN logFile :
       i < j => \E a, b \in DOMAIN history :
                   /\ a < b
                   /\ FormatLine(history[a]) = logFile[i]
                   /\ FormatLine(history[b]) = logFile[j]

====
